---- MODULE Spec2Model ----
(***************************************************************************)
(* Model of hwbp-rs: the debug-register codec (Dr6 / Dr7 views, the raw    *)
(* encoder and decoder), the breakpoint descriptor and the context wrapper *)
(* HwbpContext.                                                            *)
(*                                                                         *)
(* A machine word is modelled as the set of positions of its 1 bits, drawn *)
(* from 0 .. width-1, so that 32- and 64-bit registers keep their width:   *)
(* a shift drops what leaves the word, a negation is taken within the      *)
(* word.  Small numbers (literals, u8 codes, slot numbers) are naturals.   *)
(***************************************************************************)
EXTENDS Naturals, Integers, FiniteSets, Sequences

VARIABLES
    width,   \* bits of a debug register in this build (32 or 64)
    start,   \* the context record as first wrapped
    ctx,     \* the context record held by the wrapper
    old,     \* the record before the last operation
    last,    \* the last operation and its arguments
    ret,     \* what the last operation returned
    steps,   \* mutating operations applied so far
    status,  \* a value in the caller's hands: a status value, an address
    live,    \* the debug registers of each thread, as the system holds them
    calls    \* the calls of Hwbp::apply, enable, disable, unused in progress

vars == <<width, start, ctx, old, last, ret, steps, status, live, calls>>

(***************************************************************************)
(* Bounds of the exploration.                                              *)
(***************************************************************************)
\* Number of mutating operations applied to one context.
MaxSteps == 2
\* Number of writes to one context where only whole descriptors are written.
MaxSets == 1
\* Breakpoint addresses are drawn from 0 .. MaxAddr.
MaxAddr == 1
\* Queried addresses: the bottom 0 .. MaxQueryAddr of the address space and
\* its top TopSpan addresses.
MaxQueryAddr == 10
TopSpan == 1
\* Number of set_breakpoint calls in one sequence of descriptor writes.
MaxWrites == 2

Addrs == 0 .. MaxAddr

(***************************************************************************)
(* Machine words.                                                          *)
(***************************************************************************)
\* The register types impl_dr6! / impl_dr7! are instantiated for; the
\* context record holds 32-bit registers on x86 and 64-bit ones on x86_64.
Widths == {32, 64}

Bits(w) == 0 .. (w - 1)

RECURSIVE Pow2(_)
Pow2(n) == IF n = 0 THEN 1 ELSE 2 * Pow2(n - 1)

Pow2Tab == [i \in 0 .. 15 |-> Pow2(i)]

\* An integer literal (below 2^16) as a word.
LitBits(n) == {i \in 0 .. 15 : (n \div Pow2Tab[i]) % 2 = 1}

\* The literals below 256, tabulated.
LitTab == [n \in 0 .. 255 |-> LitBits(n)]

Lit(n) == IF n < 256 THEN LitTab[n] ELSE LitBits(n)

\* a & b, a | b, !a, a << k, a >> k on words of w bits.
And(a, b) == a \cap b
Or(a, b) == a \cup b
Not(a, w) == Bits(w) \ a
Shl(a, k, w) == {b + k : b \in a} \cap Bits(w)
Shr(a, k) == {b - k : b \in {x \in a : x >= k}}

\* `value as $inner_type` for a bool.
BoolAs(b) == IF b THEN Lit(1) ELSE {}

\* `x as u8` for a word: its low eight bits, as a natural 0 .. 255.
BitVal(x, i) == IF i \in x THEN Pow2Tab[i] ELSE 0

AsU8(x) ==
    LET low == x \cap (0 .. 7)
    IN BitVal(low, 0) + BitVal(low, 1) + BitVal(low, 2) + BitVal(low, 3)
       + BitVal(low, 4) + BitVal(low, 5) + BitVal(low, 6) + BitVal(low, 7)

(***************************************************************************)
(* enums.rs                                                                *)
(***************************************************************************)
Some(x) == <<x>>
None == <<>>

Index == {"First", "Second", "Third", "Fourth"}

\* `index as $inner_type`: the discriminant.
IndexAs(i) == CASE i = "First" -> 0
                [] i = "Second" -> 1
                [] i = "Third" -> 2
                [] i = "Fourth" -> 3

Condition == {"Execution", "Write", "ReadWrite", "IoReadWrite"}

Condition_as_bits(c) == CASE c = "Execution" -> 0
                          [] c = "Write" -> 1
                          [] c = "ReadWrite" -> 3
                          [] c = "IoReadWrite" -> 2

Condition_from_bits(b) == CASE b = 0 -> Some("Execution")
                            [] b = 1 -> Some("Write")
                            [] b = 3 -> Some("ReadWrite")
                            [] b = 2 -> Some("IoReadWrite")
                            [] OTHER -> None

Size == {"One", "Two", "Four", "Eight"}

Size_in_bytes(s) == CASE s = "One" -> 1
                      [] s = "Two" -> 2
                      [] s = "Four" -> 4
                      [] s = "Eight" -> 8

\* As Size::as_bits, but the ordinal of the variant.
Size_as_bits_ordinal(s) == CASE s = "One" -> 0
                             [] s = "Two" -> 1
                             [] s = "Four" -> 2
                             [] s = "Eight" -> 3

Size_as_bits(s) == CASE s = "One" -> 0
                     [] s = "Two" -> 1
                     [] s = "Four" -> 3
                     [] s = "Eight" -> 2

\* As Size::from_bits, without the arm of 0b10.
Size_from_bits_three(b) == CASE b = 0 -> Some("One")
                             [] b = 1 -> Some("Two")
                             [] b = 3 -> Some("Four")
                             [] OTHER -> None

Size_from_bits(b) == CASE b = 0 -> Some("One")
                       [] b = 1 -> Some("Two")
                       [] b = 3 -> Some("Four")
                       [] b = 2 -> Some("Eight")
                       [] OTHER -> None

\* Option::expect / Result::expect: the value, or a panic.
Panic == "panic"
Expect(o) == IF o = None THEN Panic ELSE o[1]

\* As by_dr6, but matching the whole value instead of its low four bits.
Index_by_dr6_nomask(dr6) ==
    CASE dr6 = Lit(1) -> Some("First")
      [] dr6 = Lit(2) -> Some("Second")
      [] dr6 = Lit(4) -> Some("Third")
      [] dr6 = Lit(8) -> Some("Fourth")
      [] OTHER -> None

\* Index::by_dr6(dr6): the slot whose hit flag is the only one set.
Index_by_dr6(dr6) ==
    LET m == And(dr6, Lit(15))
    IN CASE m = Lit(1) -> Some("First")
         [] m = Lit(2) -> Some("Second")
         [] m = Lit(4) -> Some("Third")
         [] m = Lit(8) -> Some("Fourth")
         [] OTHER -> None

\* impl TryFrom<u8> for Index (Ok as Some, Err(()) as None).
Index_try_from(value) ==
    CASE value = IndexAs("First") -> Some("First")
      [] value = IndexAs("Second") -> Some("Second")
      [] value = IndexAs("Third") -> Some("Third")
      [] value = IndexAs("Fourth") -> Some("Fourth")
      [] OTHER -> None

(***************************************************************************)
(* registers.rs: Dr6<T>, a view of the debug status register.              *)
(***************************************************************************)
Dr6_breakpoint(v) == And(v, Lit(15)) # {}

Dr6_breakpoints(v) == << And(v, Lit(1)) # {},
                         And(v, Lit(2)) # {},
                         And(v, Lit(4)) # {},
                         And(v, Lit(8)) # {} >>

\* breakpoints()[index as usize]; the array is indexed from 0.
Dr6_breakpoint_at(v, index) == Dr6_breakpoints(v)[IndexAs(index) + 1]

Dr6_debug_register_access(w, v) == And(v, Shl(Lit(1), 13, w)) # {}

\* As single_step, but testing bit 13.
Dr6_single_step_at_13(w, v) == And(v, Shl(Lit(1), 13, w)) # {}

Dr6_single_step(w, v) == And(v, Shl(Lit(1), 14, w)) # {}

Dr6_task_switch(w, v) == And(v, Shl(Lit(1), 15, w)) # {}

\* As reset, but zeroing the register.
Dr6_reset_zero(w, v) == [reg |-> {}, ret |-> v]

\* Dr6::reset: the register after the call, and the value returned.
Dr6_reset(w, v) == [reg |-> Shl(Lit(1), 16, w), ret |-> v]

(***************************************************************************)
(* registers.rs: Dr7<T>, a view of the debug control register.             *)
(***************************************************************************)
Dr7_enabled_local(w, v, index) ==
    LET local_offset == 2 * IndexAs(index)
    IN And(v, Shl(Lit(1), local_offset, w)) # {}

Dr7_enabled_global(w, v, index) ==
    LET global_offset == 1 + 2 * IndexAs(index)
    IN And(v, Shl(Lit(1), global_offset, w)) # {}

\* As condition, but reading at the size offset.
Dr7_condition_at_size(v, index) ==
    LET cond_offset == 18 + 4 * IndexAs(index)
    IN Expect(Condition_from_bits(AsU8(And(Shr(v, cond_offset), Lit(3)))))

Dr7_condition(v, index) ==
    LET cond_offset == 16 + 4 * IndexAs(index)
    IN Expect(Condition_from_bits(AsU8(And(Shr(v, cond_offset), Lit(3)))))

Dr7_size(v, index) ==
    LET size_offset == 18 + 4 * IndexAs(index)
    IN Expect(Size_from_bits(AsU8(And(Shr(v, size_offset), Lit(3)))))

\* As set_enabled_local, but clearing the slot's two enable bits.
Dr7_set_enabled_local_both(w, v, index, enabled) ==
    LET local_offset == 2 * IndexAs(index)
        v1 == And(v, Not(Shl(Lit(3), local_offset, w), w))
    IN Or(v1, Shl(BoolAs(enabled), local_offset, w))

Dr7_set_enabled_local(w, v, index, enabled) ==
    LET local_offset == 2 * IndexAs(index)
        v1 == And(v, Not(Shl(Lit(1), local_offset, w), w))
    IN Or(v1, Shl(BoolAs(enabled), local_offset, w))

Dr7_set_enabled_global(w, v, index, enabled) ==
    LET global_offset == 1 + 2 * IndexAs(index)
        v1 == And(v, Not(Shl(Lit(1), global_offset, w), w))
    IN Or(v1, Shl(BoolAs(enabled), global_offset, w))

\* As set_condition, but without clearing the field first.
Dr7_set_condition_noclear(w, v, index, condition) ==
    LET cond_offset == 16 + 4 * IndexAs(index)
    IN Or(v, Shl(Lit(Condition_as_bits(condition)), cond_offset, w))

Dr7_set_condition(w, v, index, condition) ==
    LET cond_offset == 16 + 4 * IndexAs(index)
        v1 == And(v, Not(Shl(Lit(3), cond_offset, w), w))
    IN Or(v1, Shl(Lit(Condition_as_bits(condition)), cond_offset, w))

\* As set_size, but clearing four bits from the size offset on.
Dr7_set_size_wide(w, v, index, size) ==
    LET size_offset == 18 + 4 * IndexAs(index)
        v1 == And(v, Not(Shl(Lit(15), size_offset, w), w))
    IN Or(v1, Shl(Lit(Size_as_bits(size)), size_offset, w))

Dr7_set_size(w, v, index, size) ==
    LET size_offset == 18 + 4 * IndexAs(index)
        v1 == And(v, Not(Shl(Lit(3), size_offset, w), w))
    IN Or(v1, Shl(Lit(Size_as_bits(size)), size_offset, w))

\* As clear_breakpoints, but writing zero.
Dr7_clear_breakpoints_zero(v) == And(v, Lit(0))

\* The mask 0b00000000000000001111111100000000.
Dr7_clear_breakpoints(v) == And(v, Lit(65280))

\* As clear_breakpoint, without the clearing of the global-enable bit.
Dr7_clear_breakpoint_local(w, v, index) ==
    LET v1 == Dr7_set_enabled_local(w, v, index, FALSE)
        v3 == Dr7_set_condition(w, v1, index, "Execution")
    IN Dr7_set_size(w, v3, index, "One")

Dr7_clear_breakpoint(w, v, index) ==
    LET v1 == Dr7_set_enabled_local(w, v, index, FALSE)
        v2 == Dr7_set_enabled_global(w, v1, index, FALSE)
        v3 == Dr7_set_condition(w, v2, index, "Execution")
    IN Dr7_set_size(w, v3, index, "One")

(***************************************************************************)
(* The context record (winapi CONTEXT): the debug registers and the flags  *)
(* that select which parts of the record are fetched and applied.  An      *)
(* address register holds the pointer's integer value; pointer and         *)
(* register have the same width, so the `as _` casts keep the value.       *)
(***************************************************************************)
DrField(index) == CASE index = "First" -> "Dr0"
                    [] index = "Second" -> "Dr1"
                    [] index = "Third" -> "Dr2"
                    [] index = "Fourth" -> "Dr3"

(***************************************************************************)
(* hwbp.rs: the breakpoint descriptor.                                     *)
(***************************************************************************)
Hwbp == [enabled : BOOLEAN, index : Index, address : Addrs,
         size : Size, condition : Condition]

Hwbp_new == [enabled |-> FALSE, index |-> "First", address |-> 0,
             size |-> "One", condition |-> "ReadWrite"]

\* As with_index, but leaving the index as it was.
Hwbp_with_index_kept(bp, index) == bp

Hwbp_with_index(bp, index) == [bp EXCEPT !.index = index]

Hwbp_from_index(index) == Hwbp_with_index(Hwbp_new, index)

(***************************************************************************)
(* raw.rs                                                                  *)
(***************************************************************************)
\* As raw set_breakpoint, without the clearing of the condition and size
\* bits before they are written.
raw_set_breakpoint_noclear(w, context, bp) ==
    LET hwbp_index == IndexAs(bp.index)
        stat_offset == 2 * hwbp_index
        info_offset == 4 * hwbp_index + 16
        c0 == [context EXCEPT ![DrField(bp.index)] = bp.address]
        cond == Lit(Condition_as_bits(bp.condition))
        size == Lit(Size_as_bits(bp.size))
        d2 == Or(c0.Dr7, Shl(And(cond, Lit(3)), info_offset, w))
        d3 == Or(d2, Shl(And(size, Lit(3)), info_offset + 2, w))
        d4 == And(d3, Not(Shl(Lit(1), stat_offset, w), w))
        d5 == Or(d4, Shl(BoolAs(bp.enabled), stat_offset, w))
    IN [c0 EXCEPT !.Dr7 = d5]

raw_set_breakpoint(w, context, bp) ==
    LET hwbp_index == IndexAs(bp.index)
        stat_offset == 2 * hwbp_index
        info_offset == 4 * hwbp_index + 16
        cond_offset == info_offset
        size_offset == info_offset + 2
        c0 == [context EXCEPT ![DrField(bp.index)] = bp.address]
        cond == Lit(Condition_as_bits(bp.condition))
        size == Lit(Size_as_bits(bp.size))
        d1 == And(c0.Dr7, Not(Shl(Lit(15), info_offset, w), w))
        d2 == Or(d1, Shl(And(cond, Lit(3)), cond_offset, w))
        d3 == Or(d2, Shl(And(size, Lit(3)), size_offset, w))
        d4 == And(d3, Not(Shl(Lit(1), stat_offset, w), w))
        d5 == Or(d4, Shl(BoolAs(bp.enabled), stat_offset, w))
    IN [c0 EXCEPT !.Dr7 = d5]

raw_get_breakpoint(w, context, index) ==
    LET hwbp_index == IndexAs(index)
        stat_offset == 2 * hwbp_index
        cond_offset == 4 * hwbp_index + 16
        size_offset == 4 * hwbp_index + 18
        address == context[DrField(index)]
        size == Expect(Size_from_bits(
                    AsU8(And(Shr(context.Dr7, size_offset), Lit(3)))))
        cond == Expect(Condition_from_bits(
                    AsU8(And(Shr(context.Dr7, cond_offset), Lit(3)))))
    IN [enabled |-> And(context.Dr7, Shl(Lit(1), stat_offset, w)) # {},
        index |-> index,
        address |-> address,
        size |-> size,
        condition |-> cond]

\* The array [First, Second, Third, Fourth] the iterators walk.
IndexOrder == <<"First", "Second", "Third", "Fourth">>

raw_get_breakpoints(w, context) ==
    [k \in 1 .. 4 |-> raw_get_breakpoint(w, context, IndexOrder[k])]

\* Iterator::find: the first element satisfying the predicate.
raw_unused_breakpoint(w, context) ==
    LET bps == raw_get_breakpoints(w, context)
        hits == {k \in 1 .. 4 : ~bps[k].enabled}
    IN IF hits = {} THEN None
       ELSE Some(bps[CHOOSE k \in hits : \A j \in hits : k <= j])

\* Pointers.  An address is held as its distance from address 0 going round
\* the address space: n >= 0 is address n, n < 0 is address 2^width + n, so
\* the top of the address space is -1.  The order of pointers is that of the
\* addresses.
PtrLe(a, b) == IF (a < 0) = (b < 0) THEN a <= b ELSE b < 0
PtrLt(a, b) == PtrLe(a, b) /\ a # b

\* pointer::add(count): the pointer count bytes on, and whether the sum left
\* the address space (which `add` forbids: its result is then undefined).
PtrAdd(p, count) ==
    [ptr |-> p + count, overflow |-> p < 0 /\ p + count >= 0]

\* Range::contains: start <= item && item < end.
RangeContains(from, to, item) == PtrLe(from, item) /\ PtrLt(item, to)

\* What a build makes of an `add` that leaves the address space: the sum
\* wrapped round, the comparison done on the offset address - from (as
\* if the sum had not wrapped), or the abort of a checked build.
UbOutcomes == {"wrap", "offset", "abort"}

\* The filter of get_breakpoints_by_address on one descriptor:
\* [hit |-> the closure's result, abort |-> the call aborted].
raw_overlaps(x, address, ub) ==
    LET from == x.address
        sum == PtrAdd(from, Size_in_bytes(x.size))
        to == sum.ptr
    IN IF ~sum.overflow
       THEN [hit |-> RangeContains(from, to, address), abort |-> FALSE]
       ELSE CASE ub = "wrap" ->
                   [hit |-> RangeContains(from, to, address), abort |-> FALSE]
              [] ub = "offset" ->
                   [hit |-> PtrLe(from, address) \/ PtrLt(address, to),
                    abort |-> FALSE]
              [] ub = "abort" -> [hit |-> FALSE, abort |-> TRUE]

\* [panic |-> the call aborted, items |-> the descriptors yielded].
raw_get_breakpoints_by_address(w, context, address, ub) ==
    LET bps == raw_get_breakpoints(w, context)
        Hit(x) == raw_overlaps(x, address, ub).hit
    IN [panic |-> \E k \in 1 .. 4 : raw_overlaps(bps[k], address, ub).abort,
        items |-> SelectSeq(bps, Hit)]

raw_clear_breakpoints(context) ==
    [context EXCEPT !.Dr7 = And(context.Dr7, Lit(65280)),
                    !.Dr0 = 0, !.Dr1 = 0, !.Dr2 = 0, !.Dr3 = 0]

(***************************************************************************)
(* context.rs                                                              *)
(***************************************************************************)
\* reset_dr6: mem::replace(&mut ctx.Dr6, 1 << 16).
reset_dr6(w, context) ==
    [ctx |-> [context EXCEPT !.Dr6 = Shl(Lit(1), 16, w)], ret |-> context.Dr6]

(***************************************************************************)
(* hwbp_context.rs: HwbpContext<C>, the wrapper around a context record.   *)
(***************************************************************************)
\* As unused_breakpoint, but returning the last unused slot.
HwbpContext_unused_breakpoint_last(w, c) ==
    LET bps == raw_get_breakpoints(w, c)
        hits == {k \in 1 .. 4 : ~bps[k].enabled}
    IN IF hits = {} THEN None
       ELSE Some(bps[CHOOSE k \in hits : \A j \in hits : k >= j])

HwbpContext_unused_breakpoint(w, c) ==
    LET bps == raw_get_breakpoints(w, c)
        hits == {k \in 1 .. 4 : ~bps[k].enabled}
    IN IF hits = {} THEN None
       ELSE Some(bps[CHOOSE k \in hits : \A j \in hits : k <= j])

HwbpContext_breakpoint(w, c, index) == raw_get_breakpoint(w, c, index)

HwbpContext_breakpoints(w, c) == raw_get_breakpoints(w, c)

HwbpContext_breakpoints_by_address(w, c, address, ub) ==
    raw_get_breakpoints_by_address(w, c, address, ub)

\* As set_breakpoint, with the enable bit only ever set: a disabled
\* descriptor leaves the bit as it was.
HwbpContext_set_breakpoint_sticky(w, c, bp) ==
    LET c0 == [c EXCEPT ![DrField(bp.index)] = bp.address]
        d1 == Dr7_set_size(w, c0.Dr7, bp.index, bp.size)
        d2 == Dr7_set_condition(w, d1, bp.index, bp.condition)
        d3 == IF bp.enabled
              THEN Dr7_set_enabled_local(w, d2, bp.index, TRUE) ELSE d2
    IN [c0 EXCEPT !.Dr7 = d3]

HwbpContext_set_breakpoint(w, c, bp) ==
    LET c0 == [c EXCEPT ![DrField(bp.index)] = bp.address]
        d1 == Dr7_set_size(w, c0.Dr7, bp.index, bp.size)
        d2 == Dr7_set_condition(w, d1, bp.index, bp.condition)
        d3 == Dr7_set_enabled_local(w, d2, bp.index, bp.enabled)
    IN [c0 EXCEPT !.Dr7 = d3]

\* filter_map over Dr6(dr6).breakpoints().into_iter().enumerate(), from
\* enumerate index i on: the descriptors of the flagged slots in the order
\* the iterator yields them, and whether an expect("can't fail") panicked.
RECURSIVE ByDr6From(_, _, _, _)
ByDr6From(w, c, flags, i) ==
    IF i > 3 THEN [panic |-> FALSE, items |-> <<>>]
    ELSE LET rest == ByDr6From(w, c, flags, i + 1)
             idx == Index_try_from(i)
         IN IF flags[i + 1]
            THEN IF idx = None
                 THEN [panic |-> TRUE, items |-> <<>>]
                 ELSE [panic |-> rest.panic,
                       items |-> <<HwbpContext_breakpoint(w, c, idx[1])>>
                                 \o rest.items]
            ELSE rest

\* As breakpoints_by_dr6_value, but yielding a breakpoint only when exactly
\* one flag is set (what its doc comment describes).
HwbpContext_breakpoints_by_dr6_value_single(w, c, dr6) ==
    LET i == Index_by_dr6(dr6)
    IN [panic |-> FALSE,
        items |-> IF i = None THEN <<>>
                  ELSE <<HwbpContext_breakpoint(w, c, i[1])>>]

HwbpContext_breakpoints_by_dr6_value(w, c, dr6) ==
    ByDr6From(w, c, Dr6_breakpoints(dr6), 0)

HwbpContext_breakpoints_by_dr6(w, c) ==
    HwbpContext_breakpoints_by_dr6_value(w, c, c.Dr6)

\* As clear_breakpoints, but leaving Dr3 as it was.
HwbpContext_clear_breakpoints_three(c) ==
    [c EXCEPT !.Dr7 = Dr7_clear_breakpoints(c.Dr7),
              !.Dr0 = 0, !.Dr1 = 0, !.Dr2 = 0]

HwbpContext_clear_breakpoints(c) ==
    [c EXCEPT !.Dr7 = Dr7_clear_breakpoints(c.Dr7),
              !.Dr0 = 0, !.Dr1 = 0, !.Dr2 = 0, !.Dr3 = 0]

(***************************************************************************)
(* lib.rs: the single-breakpoint lookup of the earlier wrapper.            *)
(***************************************************************************)
\* Some(self.breakpoint(Index::by_dr6(dr6)?))
HwbpContext_breakpoint_by_dr6(w, c, dr6) ==
    LET i == Index_by_dr6(dr6)
    IN IF i = None THEN None ELSE Some(raw_get_breakpoint(w, c, i[1]))

(***************************************************************************)
(* Starting contexts: what a fetch or a trap may have left in the record.  *)
(***************************************************************************)
\* Bit patterns of a register, cut to the register's width.
MixedBits == {1, 2, 5, 9, 12, 15, 16, 19, 21, 22, 26, 28, 31, 33, 47, 63}
StatusBits == {1, 3, 13, 16, 40}
DebugFlags == {4, 16}
FullFlags == {0, 1, 2, 3, 4, 16}

SeedContexts(w) ==
    { [Dr0 |-> 0, Dr1 |-> 0, Dr2 |-> 0, Dr3 |-> 0,
       Dr6 |-> {}, Dr7 |-> {}, ContextFlags |-> DebugFlags],
      [Dr0 |-> MaxAddr, Dr1 |-> MaxAddr, Dr2 |-> MaxAddr, Dr3 |-> MaxAddr,
       Dr6 |-> Bits(w), Dr7 |-> Bits(w), ContextFlags |-> FullFlags],
      [Dr0 |-> 0, Dr1 |-> MaxAddr, Dr2 |-> 0, Dr3 |-> MaxAddr,
       Dr6 |-> StatusBits \cap Bits(w), Dr7 |-> MixedBits \cap Bits(w),
       ContextFlags |-> DebugFlags] }

(***************************************************************************)
(* context.rs: the fetch and apply strategies, and the system calls they   *)
(* make.  `lv` is the debug registers of each thread as the system holds   *)
(* them; `os` is the system's answer to one call: ans "ok", "fail" or      *)
(* "gone" (control was transferred, the call does not return), and whether *)
(* a call that works outside the kernel carries the debug registers.       *)
(***************************************************************************)
Threads == {"self", "other"}

\* HANDLE values: one per thread, and one that names no thread.
Handles == Threads \cup {"invalid"}

\* current_thread(): the pseudo handle -2 of the calling thread.
current_thread == "self"

OsAnswers == [ans : {"ok", "fail", "gone"}, fills : BOOLEAN]

\* The debug registers of a context record.
Regs(c) == [Dr0 |-> c.Dr0, Dr1 |-> c.Dr1, Dr2 |-> c.Dr2, Dr3 |-> c.Dr3,
            Dr6 |-> c.Dr6, Dr7 |-> c.Dr7]

WithRegs(c, r) == [c EXCEPT !.Dr0 = r.Dr0, !.Dr1 = r.Dr1, !.Dr2 = r.Dr2,
                            !.Dr3 = r.Dr3, !.Dr6 = r.Dr6, !.Dr7 = r.Dr7]

\* ContextFlags selects the debug registers (bit 4, 0x10).
HasDebug(flags) == 4 \in flags

\* The flags a direct capture leaves in the record: control, integer,
\* segments, floating point.
CaptureFlags == {0, 1, 2, 3, 16}

\* GetThreadContext(h, context): 0 on failure, else the parts of the
\* thread's context that ContextFlags selects are written to the record.
GetThreadContext(lv, h, context, os) ==
    IF h \notin Threads \/ os.ans # "ok"
    THEN [ret |-> 0, context |-> context]
    ELSE [ret |-> 1,
          context |-> IF HasDebug(context.ContextFlags)
                      THEN WithRegs(context, lv[h]) ELSE context]

\* As SetThreadContext, with the thread's control bits kept: Dr7 becomes
\* the union of the thread's and the record's.
SetThreadContext_merged(lv, h, context, os) ==
    IF h \notin Threads \/ os.ans # "ok"
    THEN [ret |-> 0, live |-> lv]
    ELSE [ret |-> 1,
          live |-> IF HasDebug(context.ContextFlags)
                   THEN [lv EXCEPT ![h] =
                            [Regs(context) EXCEPT !.Dr7 = Or(lv[h].Dr7, @)]]
                   ELSE lv]

\* SetThreadContext(h, context): 0 on failure, else the parts of the record
\* that ContextFlags selects become the thread's.
SetThreadContext(lv, h, context, os) ==
    IF h \notin Threads \/ os.ans # "ok"
    THEN [ret |-> 0, live |-> lv]
    ELSE [ret |-> 1,
          live |-> IF HasDebug(context.ContextFlags)
                   THEN [lv EXCEPT ![h] = Regs(context)] ELSE lv]

\* RtlCaptureContext(context): always returns; the record receives the
\* caller's registers, with or without the debug registers.
RtlCaptureContext(lv, context, os) ==
    IF os.fills THEN WithRegs(context, lv[current_thread])
    ELSE [context EXCEPT !.ContextFlags = CaptureFlags]

\* RtlRestoreContext(context, null): control goes to the record, or the
\* call returns.
RtlRestoreContext(lv, context, os) ==
    IF os.ans = "gone"
    THEN [returns |-> FALSE,
          live |-> IF os.fills /\ HasDebug(context.ContextFlags)
                   THEN [lv EXCEPT ![current_thread] = Regs(context)]
                   ELSE lv]
    ELSE [returns |-> TRUE, live |-> lv]

\* NtContinue(context, 1): the thread continues from the record and the
\* call does not return, or it returns a status.
NtContinue(lv, context, os) ==
    IF os.ans = "gone"
    THEN [returns |-> FALSE, success |-> TRUE,
          live |-> IF HasDebug(context.ContextFlags)
                   THEN [lv EXCEPT ![current_thread] = Regs(context)]
                   ELSE lv]
    ELSE [returns |-> TRUE, success |-> os.ans = "ok", live |-> lv]

FetchWith ==
    {[kind |-> "GetThreadContext", h |-> current_thread],
     [kind |-> "RtlCaptureContext", h |-> current_thread]}
       \cup {[kind |-> "GetThreadContextOther", h |-> h] : h \in Handles}

\* The apply strategies of a build of the given width with feature ntapi.
ApplyWith(w) ==
    {[kind |-> "SetThreadContext", h |-> current_thread],
     [kind |-> "NtContinue", h |-> current_thread]}
       \cup {[kind |-> "SetThreadContextOther", h |-> h] : h \in Handles}
       \cup (IF w = 64
             THEN {[kind |-> "RtlRestoreContext", h |-> current_thread]}
             ELSE {})

\* As fetch_context, with the arms of the two matches swapped.
FetchWith_fetch_context_swapped(lv, with, context, os) ==
    IF with.kind = "RtlCaptureContext"
    THEN [res |-> "Ok", context |-> RtlCaptureContext(lv, context, os),
          sys |-> "unit"]
    ELSE LET r == GetThreadContext(lv, with.h, context, os)
         IN [res |-> IF r.ret = 0 THEN "Ok" ELSE "FailedFetchContext",
             context |-> r.context, sys |-> r.ret]

\* [res |-> "Ok" or the error, context |-> the record after the call,
\*  sys |-> what the underlying query returned].
FetchWith_fetch_context(lv, with, context, os) ==
    CASE with.kind = "RtlCaptureContext" ->
           [res |-> "Ok", context |-> RtlCaptureContext(lv, context, os),
            sys |-> "unit"]
      [] with.kind = "GetThreadContext" ->
           LET r == GetThreadContext(lv, current_thread, context, os)
           IN [res |-> IF r.ret = 0 THEN "FailedFetchContext" ELSE "Ok",
               context |-> r.context, sys |-> r.ret]
      [] with.kind = "GetThreadContextOther" ->
           LET r == GetThreadContext(lv, with.h, context, os)
           IN [res |-> IF r.ret = 0 THEN "FailedFetchContext" ELSE "Ok",
               context |-> r.context, sys |-> r.ret]

\* As apply_context, with the arms of SetThreadContext swapped.
ApplyWith_apply_context_swapped(lv, with, context, os) ==
    LET r == SetThreadContext(lv, with.h, context, os)
    IN [res |-> IF r.ret = 0 THEN "Ok" ELSE "FailedApplyContext",
        live |-> r.live, sys |-> r.ret]

\* As apply_context, with the error of the fetch side in the failing arms
\* of SetThreadContext.
ApplyWith_apply_context_miscoded(lv, with, context, os) ==
    CASE with.kind \in {"SetThreadContext", "SetThreadContextOther"} ->
           LET r == SetThreadContext(lv, with.h, context, os)
           IN [res |-> IF r.ret = 0 THEN "FailedFetchContext" ELSE "Ok",
               live |-> r.live, sys |-> r.ret]
      [] with.kind = "RtlRestoreContext" ->
           LET r == RtlRestoreContext(lv, context, os)
           IN [res |-> IF r.returns THEN "Ok" ELSE "NoReturn",
               live |-> r.live, sys |-> "unit"]
      [] with.kind = "NtContinue" ->
           LET r == NtContinue(lv, context, os)
           IN [res |-> IF ~r.returns THEN "NoReturn"
                       ELSE IF r.success THEN "Ok"
                       ELSE "FailedApplyContext",
               live |-> r.live, sys |-> IF r.success THEN 0 ELSE 1]

\* [res |-> "Ok", the error, or "NoReturn" when the call does not return,
\*  live |-> the threads after the call, sys |-> what the call returned].
ApplyWith_apply_context(lv, with, context, os) ==
    CASE with.kind = "SetThreadContext" ->
           LET r == SetThreadContext(lv, current_thread, context, os)
           IN [res |-> IF r.ret = 0 THEN "FailedApplyContext" ELSE "Ok",
               live |-> r.live, sys |-> r.ret]
      [] with.kind = "SetThreadContextOther" ->
           LET r == SetThreadContext(lv, with.h, context, os)
           IN [res |-> IF r.ret = 0 THEN "FailedApplyContext" ELSE "Ok",
               live |-> r.live, sys |-> r.ret]
      [] with.kind = "RtlRestoreContext" ->
           LET r == RtlRestoreContext(lv, context, os)
           IN [res |-> IF r.returns THEN "Ok" ELSE "NoReturn",
               live |-> r.live, sys |-> "unit"]
      [] with.kind = "NtContinue" ->
           LET r == NtContinue(lv, context, os)
           IN [res |-> IF ~r.returns THEN "NoReturn"
                       ELSE IF r.success THEN "Ok"
                       ELSE "FailedApplyContext",
               live |-> r.live, sys |-> IF r.success THEN 0 ELSE 1]

(***************************************************************************)
(* hwbp_context.rs: fetching and applying the wrapped record.              *)
(***************************************************************************)
\* As the zeroed record, with the flag field left out of the zeroing's
\* reach: memory that was not cleared.
ZeroedContext_uninit == [Dr0 |-> MaxAddr, Dr1 |-> 0, Dr2 |-> 0, Dr3 |-> 0,
                         Dr6 |-> {}, Dr7 |-> {10}, ContextFlags |-> {}]

\* std::mem::zeroed().
ZeroedContext == [Dr0 |-> 0, Dr1 |-> 0, Dr2 |-> 0, Dr3 |-> 0,
                  Dr6 |-> {}, Dr7 |-> {}, ContextFlags |-> {}]

CONTEXT_DEBUG_REGISTERS == DebugFlags

\* As get_with, without the `?`: the record is wrapped whatever the fetch
\* returned.
HwbpContext_get_with_unchecked(lv, with, os) ==
    LET context == [ZeroedContext EXCEPT
                        !.ContextFlags = CONTEXT_DEBUG_REGISTERS]
        r == FetchWith_fetch_context(lv, with, context, os)
    IN [res |-> "Ok", ctx |-> r.context, sys |-> r.sys]

\* [res |-> "Ok" with the wrapper's record in ctx, or the error].
HwbpContext_get_with(lv, with, os) ==
    LET context == [ZeroedContext EXCEPT
                        !.ContextFlags = CONTEXT_DEBUG_REGISTERS]
        r == FetchWith_fetch_context(lv, with, context, os)
    IN IF r.res # "Ok" THEN [res |-> r.res, ctx |-> None, sys |-> r.sys]
       ELSE [res |-> "Ok", ctx |-> r.context, sys |-> r.sys]

HwbpContext_get(lv, os) ==
    HwbpContext_get_with(lv, [kind |-> "GetThreadContext",
                              h |-> current_thread], os)

HwbpContext_apply_with(lv, c, with, os) ==
    ApplyWith_apply_context(lv, with, c, os)

HwbpContext_apply(lv, c, os) ==
    HwbpContext_apply_with(lv, c, [kind |-> "SetThreadContext",
                                   h |-> current_thread], os)

(***************************************************************************)
(* hwbp_context.rs: HwbpContext<C> over a record it owns (C = CONTEXT) or  *)
(* over a borrow of the caller's record (C = &mut CONTEXT).                *)
(***************************************************************************)
\* The type parameter's value: a record of the wrapper's own, or a
\* reference to the caller's record.
Owned(c) == [own |-> TRUE, rec |-> c]
Borrowed == [own |-> FALSE]

\* As from_context, but setting the flags as get_with does.
HwbpContext_from_context_debug_only(context) ==
    [inner |-> IF context.own
               THEN Owned([context.rec EXCEPT
                              !.ContextFlags = CONTEXT_DEBUG_REGISTERS])
               ELSE context]

\* HwbpContext(context)
HwbpContext_from_context(context) == [inner |-> context]

\* self.0
HwbpContext_into_context(self) == self.inner

\* self.0.borrow(): the record the wrapper reads, cr being the caller's.
HwbpContext_borrow(self, cr) ==
    IF self.inner.own THEN self.inner.rec ELSE cr

\* As borrow_mut, with a borrowing wrapper writing to a copy of its own.
HwbpContext_borrow_mut_detached(self, cr, new) ==
    [self |-> [inner |-> Owned(new)], cr |-> cr]

\* Writing `new` through self.0.borrow_mut(): the wrapper and the caller's
\* record afterwards.
HwbpContext_borrow_mut(self, cr, new) ==
    IF self.inner.own
    THEN [self |-> [inner |-> Owned(new)], cr |-> cr]
    ELSE [self |-> self, cr |-> new]

Init ==
    /\ width \in Widths
    /\ ctx \in SeedContexts(width)
    /\ start = ctx
    /\ old = ctx
    /\ last = [op |-> "init"]
    /\ ret = None
    /\ steps = 0
    /\ status = ctx.Dr6
    /\ live = <<>>
    /\ calls = <<>>

(***************************************************************************)
(* Operations on the wrapped context.  `old` is the context before the     *)
(* operation, `last` the operation and its arguments, `ret` what it        *)
(* returned.                                                               *)
(***************************************************************************)
Step(c, l, r) ==
    /\ steps < MaxSteps
    /\ steps' = steps + 1
    /\ old' = ctx
    /\ ctx' = c
    /\ last' = l
    /\ ret' = r
    /\ UNCHANGED <<width, start, status, live, calls>>

SetBreakpoint ==
    \E bp \in Hwbp :
        Step(HwbpContext_set_breakpoint(width, ctx, bp),
             [op |-> "set_breakpoint", bp |-> bp], None)

ClearBreakpoints ==
    Step(HwbpContext_clear_breakpoints(ctx), [op |-> "clear_breakpoints"], None)

\* The Dr7 setters, reached through dr7_mut().
Dr7SetEnabledLocal ==
    \E index \in Index, enabled \in BOOLEAN :
        Step([ctx EXCEPT !.Dr7 = Dr7_set_enabled_local(width, @, index, enabled)],
             [op |-> "set_enabled_local", index |-> index, enabled |-> enabled],
             None)

Dr7SetEnabledGlobal ==
    \E index \in Index, enabled \in BOOLEAN :
        Step([ctx EXCEPT !.Dr7 = Dr7_set_enabled_global(width, @, index, enabled)],
             [op |-> "set_enabled_global", index |-> index, enabled |-> enabled],
             None)

Dr7SetCondition ==
    \E index \in Index, condition \in Condition :
        Step([ctx EXCEPT !.Dr7 = Dr7_set_condition(width, @, index, condition)],
             [op |-> "set_condition", index |-> index, condition |-> condition],
             None)

Dr7SetSize ==
    \E index \in Index, size \in Size :
        Step([ctx EXCEPT !.Dr7 = Dr7_set_size(width, @, index, size)],
             [op |-> "set_size", index |-> index, size |-> size], None)

Dr7ClearBreakpoints ==
    Step([ctx EXCEPT !.Dr7 = Dr7_clear_breakpoints(@)],
         [op |-> "dr7_clear_breakpoints"], None)

Dr7ClearBreakpoint ==
    \E index \in Index :
        Step([ctx EXCEPT !.Dr7 = Dr7_clear_breakpoint(width, @, index)],
             [op |-> "dr7_clear_breakpoint", index |-> index], None)

\* dr6_mut().reset()
Dr6Reset ==
    LET r == Dr6_reset(width, ctx.Dr6)
    IN Step([ctx EXCEPT !.Dr6 = r.reg], [op |-> "dr6_reset"], r.ret)

\* reset_dr6(&mut record)
ResetDr6 ==
    LET r == reset_dr6(width, ctx)
    IN Step(r.ctx, [op |-> "reset_dr6"], r.ret)

Next ==
    \/ SetBreakpoint
    \/ ClearBreakpoints
    \/ Dr7SetEnabledLocal
    \/ Dr7SetEnabledGlobal
    \/ Dr7SetCondition
    \/ Dr7SetSize
    \/ Dr7ClearBreakpoints
    \/ Dr7ClearBreakpoint
    \/ Dr6Reset
    \/ ResetDr6

Spec == Init /\ [][Next]_vars

(***************************************************************************)
(* Whole descriptors alone: set_breakpoint and clear_breakpoints on any of *)
(* the starting contexts.                                                  *)
(***************************************************************************)
NextSet ==
    \/ steps < MaxSets /\ SetBreakpoint
    \/ steps < MaxSets /\ ClearBreakpoints

SpecSet == Init /\ [][NextSet]_vars

(***************************************************************************)
(* The register views alone: the Dr7 setters and clears, the wrapper's     *)
(* clear and the two Dr6 resets.                                           *)
(***************************************************************************)
NextRegs ==
    \/ ClearBreakpoints
    \/ Dr7SetEnabledLocal
    \/ Dr7SetEnabledGlobal
    \/ Dr7SetCondition
    \/ Dr7SetSize
    \/ Dr7ClearBreakpoints
    \/ Dr7ClearBreakpoint
    \/ Dr6Reset
    \/ ResetDr6

SpecRegs == Init /\ [][NextRegs]_vars

(***************************************************************************)
(* Decoding the status register.  The caller holds a status value (any of *)
(* the values below) and a wrapper whose record carries either its own     *)
(* status or that value; the readers of the Dr6 view are applied to the    *)
(* record's dr6(), the lookups by status to the caller's value and to the  *)
(* record.                                                                 *)
(***************************************************************************)
HitBits == {0, 1, 2, 3}
AuxPatterns(w) == {{}, {13}, {14}, {15}, {4, 16, w - 1}}
Dr6Values(w) == {h \cup a : h \in SUBSET HitBits, a \in AuxPatterns(w)}

InitStatus ==
    /\ width \in Widths
    /\ status \in Dr6Values(width)
    /\ \E c \in SeedContexts(width) : ctx \in {c, [c EXCEPT !.Dr6 = status]}
    /\ start = ctx
    /\ old = ctx
    /\ last = [op |-> "init"]
    /\ ret = None
    /\ steps = 0
    /\ live = <<>>
    /\ calls = <<>>

\* A call through &self: the record is not written.
Read(l, r) ==
    /\ old' = ctx
    /\ ctx' = ctx
    /\ last' = l
    /\ ret' = r
    /\ UNCHANGED <<width, start, steps, status, live, calls>>

Dr6Breakpoint ==
    Read([op |-> "dr6.breakpoint"], Dr6_breakpoint(ctx.Dr6))

Dr6BreakpointAt ==
    \E index \in Index :
        Read([op |-> "dr6.breakpoint_at", index |-> index],
             Dr6_breakpoint_at(ctx.Dr6, index))

Dr6Breakpoints ==
    Read([op |-> "dr6.breakpoints"], Dr6_breakpoints(ctx.Dr6))

Dr6DebugRegisterAccess ==
    Read([op |-> "dr6.debug_register_access"],
         Dr6_debug_register_access(width, ctx.Dr6))

Dr6SingleStep ==
    Read([op |-> "dr6.single_step"], Dr6_single_step(width, ctx.Dr6))

Dr6TaskSwitch ==
    Read([op |-> "dr6.task_switch"], Dr6_task_switch(width, ctx.Dr6))

IndexByDr6 ==
    Read([op |-> "Index::by_dr6"], Index_by_dr6(status))

BreakpointByDr6 ==
    Read([op |-> "breakpoint_by_dr6"],
         HwbpContext_breakpoint_by_dr6(width, ctx, status))

BreakpointsByDr6Value ==
    Read([op |-> "breakpoints_by_dr6_value"],
         HwbpContext_breakpoints_by_dr6_value(width, ctx, status))

BreakpointsByDr6 ==
    Read([op |-> "breakpoints_by_dr6"],
         HwbpContext_breakpoints_by_dr6(width, ctx))

NextStatus ==
    \/ Dr6Breakpoint
    \/ Dr6BreakpointAt
    \/ Dr6Breakpoints
    \/ Dr6DebugRegisterAccess
    \/ Dr6SingleStep
    \/ Dr6TaskSwitch
    \/ IndexByDr6
    \/ BreakpointByDr6
    \/ BreakpointsByDr6Value
    \/ BreakpointsByDr6

SpecStatus == InitStatus /\ [][NextStatus]_vars

(***************************************************************************)
(* The overlap query.  Slots First and Second hold descriptors at any of   *)
(* the addresses below, the other two slots are as the starting context    *)
(* has them; the caller holds any of the addresses and queries it.         *)
(***************************************************************************)
QueryAddrs == ((0 - TopSpan) .. (0 - 1)) \cup (0 .. MaxQueryAddr)

QueryFirst ==
    {[enabled |-> e, index |-> "First", address |-> a, size |-> s,
      condition |-> "Write"] : e \in BOOLEAN, a \in QueryAddrs, s \in Size}

QuerySecond ==
    {[enabled |-> FALSE, index |-> "Second", address |-> a, size |-> s,
      condition |-> "ReadWrite"] : a \in QueryAddrs, s \in {"One"}}

InitQuery ==
    /\ width \in Widths
    /\ \E c \in SeedContexts(width), b1 \in QueryFirst, b2 \in QuerySecond :
          ctx = HwbpContext_set_breakpoint(width,
                    HwbpContext_set_breakpoint(width, c, b1), b2)
    /\ start = ctx
    /\ old = ctx
    /\ last = [op |-> "init"]
    /\ ret = None
    /\ steps = 0
    /\ status \in QueryAddrs
    /\ live = <<>>
    /\ calls = <<>>

BreakpointsByAddress ==
    \E ub \in UbOutcomes :
        Read([op |-> "breakpoints_by_address", address |-> status],
             HwbpContext_breakpoints_by_address(width, ctx, status, ub))

NextQuery == BreakpointsByAddress

SpecQuery == InitQuery /\ [][NextQuery]_vars

(***************************************************************************)
(* Decoding the control register.  The record carries any of the Dr7       *)
(* values below: every set of local-enable bits, every pair of condition   *)
(* and size codes in every slot, with and without the bits the decoder     *)
(* does not read (global enables, bits 8-15, the top bit of the word).     *)
(***************************************************************************)
\* The word holding the 2-bit code k at bits off, off + 1.
CodeAt(k, off) ==
    (IF k % 2 = 1 THEN {off} ELSE {}) \cup (IF k >= 2 THEN {off + 1} ELSE {})

\* Slot n (0 .. 3) holds condition code c + n * r and size code s + n * r.
InfoPattern(c, s, r) ==
    UNION {CodeAt((c + n * r) % 4, 16 + 4 * n)
             \cup CodeAt((s + n * r) % 4, 18 + 4 * n) : n \in 0 .. 3}

UnreadBits(w) == {1, 3, 5, 7} \cup (8 .. 15) \cup {w - 1}

Dr7Values(w) ==
    {e \cup InfoPattern(c, s, r) \cup u :
        e \in SUBSET {0, 2, 4, 6}, c \in 0 .. 3, s \in 0 .. 3, r \in 0 .. 1,
        u \in {{}, UnreadBits(w)}}

InitDecode ==
    /\ width \in Widths
    /\ \E c \in SeedContexts(width), v \in Dr7Values(width) :
          ctx = [c EXCEPT !.Dr7 = v]
    /\ start = ctx
    /\ old = ctx
    /\ last = [op |-> "init"]
    /\ ret = None
    /\ steps = 0
    /\ status = ctx.Dr6
    /\ live = <<>>
    /\ calls = <<>>

UnusedBreakpoint ==
    Read([op |-> "unused_breakpoint"],
         HwbpContext_unused_breakpoint(width, ctx))

Breakpoints ==
    Read([op |-> "breakpoints"], HwbpContext_breakpoints(width, ctx))

Breakpoint ==
    \E index \in Index :
        Read([op |-> "breakpoint", index |-> index],
             HwbpContext_breakpoint(width, ctx, index))

Dr7Condition ==
    \E index \in Index :
        Read([op |-> "dr7.condition", index |-> index],
             Dr7_condition(ctx.Dr7, index))

Dr7Size ==
    \E index \in Index :
        Read([op |-> "dr7.size", index |-> index], Dr7_size(ctx.Dr7, index))

NextDecode ==
    \/ UnusedBreakpoint
    \/ Breakpoints
    \/ Breakpoint
    \/ Dr7Condition
    \/ Dr7Size

SpecDecode == InitDecode /\ [][NextDecode]_vars

(***************************************************************************)
(* The codes of Size and Condition: each variant is encoded, each u8 is    *)
(* decoded.                                                                *)
(***************************************************************************)
U8 == 0 .. 255

SizeAsBits ==
    \E size \in Size :
        Read([op |-> "Size::as_bits", size |-> size], Size_as_bits(size))

SizeInBytes ==
    \E size \in Size :
        Read([op |-> "Size::in_bytes", size |-> size], Size_in_bytes(size))

SizeFromBits ==
    \E bits \in U8 :
        Read([op |-> "Size::from_bits", bits |-> bits], Size_from_bits(bits))

ConditionAsBits ==
    \E condition \in Condition :
        Read([op |-> "Condition::as_bits", condition |-> condition],
             Condition_as_bits(condition))

ConditionFromBits ==
    \E bits \in U8 :
        Read([op |-> "Condition::from_bits", bits |-> bits],
             Condition_from_bits(bits))

NextCodec ==
    \/ SizeAsBits
    \/ SizeInBytes
    \/ SizeFromBits
    \/ ConditionAsBits
    \/ ConditionFromBits

SpecCodec == Init /\ [][NextCodec]_vars

(***************************************************************************)
(* A wrapper that owns a fetched snapshot: the record is what a fetch of   *)
(* any strategy returned, it is written by the wrapper's operations and    *)
(* applied with any strategy.  After an apply that does not return, the    *)
(* caller makes no further call.                                           *)
(***************************************************************************)
\* The descriptors written in the runs that involve a thread.
ThreadHwbp ==
    {[enabled |-> e, index |-> i, address |-> MaxAddr, size |-> "Two",
      condition |-> "Write"] : e \in BOOLEAN, i \in {"Second", "Fourth"}}

\* The threads' registers: those of the calling thread are any starting
\* context's, those of the other thread are fixed.
LiveSeeds(w) ==
    {[t \in Threads |->
        IF t = current_thread THEN Regs(c)
        ELSE [Dr0 |-> MaxAddr, Dr1 |-> 0, Dr2 |-> MaxAddr, Dr3 |-> 0,
              Dr6 |-> {0, 16}, Dr7 |-> {0, 4, 10, 17, 24, 27}]] :
        c \in SeedContexts(w)}

InitSnapshot ==
    /\ width \in Widths
    /\ live \in LiveSeeds(width)
    /\ \E with \in FetchWith, os \in OsAnswers :
          LET r == HwbpContext_get_with(live, with, os)
          IN /\ r.res = "Ok"
             /\ ctx = r.ctx
    /\ start = ctx
    /\ old = ctx
    /\ last = [op |-> "init"]
    /\ ret = None
    /\ steps = 0
    /\ status = ctx.Dr6
    /\ calls = <<>>

\* The last call returned to its caller.
Returned == last.op = "apply_with" => last.returned

SnapSetBreakpoint ==
    \E bp \in ThreadHwbp :
        Step(HwbpContext_set_breakpoint(width, ctx, bp),
             [op |-> "set_breakpoint", bp |-> bp], None)

\* The setters of dr7_mut() and its clear_breakpoint, on slot Third.
SnapDr7Write ==
    \E index \in {"Third"} :
        \/ Step([ctx EXCEPT !.Dr7 =
                     Dr7_set_enabled_local(width, ctx.Dr7, index, TRUE)],
                [op |-> "set_enabled_local", index |-> index,
                 enabled |-> TRUE], None)
        \/ Step([ctx EXCEPT !.Dr7 =
                     Dr7_set_enabled_global(width, ctx.Dr7, index, TRUE)],
                [op |-> "set_enabled_global", index |-> index,
                 enabled |-> TRUE], None)
        \/ Step([ctx EXCEPT !.Dr7 =
                     Dr7_set_condition(width, ctx.Dr7, index, "ReadWrite")],
                [op |-> "set_condition", index |-> index,
                 condition |-> "ReadWrite"], None)
        \/ Step([ctx EXCEPT !.Dr7 =
                     Dr7_set_size(width, ctx.Dr7, index, "Eight")],
                [op |-> "set_size", index |-> index, size |-> "Eight"], None)
        \/ Step([ctx EXCEPT !.Dr7 =
                     Dr7_clear_breakpoint(width, ctx.Dr7, index)],
                [op |-> "dr7_clear_breakpoint", index |-> index], None)

\* apply() is apply_with(ApplyWith::SetThreadContext).
WrapperApply ==
    \E with \in ApplyWith(width), os \in OsAnswers :
        LET r == HwbpContext_apply_with(live, ctx, with, os)
        IN /\ live' = r.live
           /\ ctx' = ctx
           /\ old' = ctx
           /\ last' = [op |-> "apply_with", with |-> with,
                       returned |-> r.res # "NoReturn"]
           /\ ret' = r.res
           /\ UNCHANGED <<width, start, steps, status, calls>>

NextSnapshot ==
    \/ /\ Returned
       /\ steps < MaxSets
       /\ \/ SnapSetBreakpoint
          \/ ClearBreakpoints
          \/ SnapDr7Write
          \/ Dr7ClearBreakpoints
          \/ Dr6Reset
          \/ ResetDr6
    \/ Returned /\ WrapperApply

SpecSnapshot == InitSnapshot /\ [][NextSnapshot]_vars

(***************************************************************************)
(* hwbp.rs: the calls on a descriptor that fetch a snapshot, write the     *)
(* descriptor to it and apply it, and the query for an unused slot.  Each  *)
(* caller runs one call, statement by statement; `calls` holds for each    *)
(* caller the function, its arguments, its position, its locals, what it   *)
(* returned, and the strategy invocations it made so far, in order.        *)
(***************************************************************************)
PlainFns == {"apply", "enable", "disable"}
WithFns == {"apply_with", "enable_with", "disable_with"}
UnusedFns == {"unused", "unused_with"}

Ok(v) == [tag |-> "Ok", value |-> v]
Err(e) == [tag |-> "Err", value |-> e]

\* The strategies of get() and apply().
DefaultFetch == [kind |-> "GetThreadContext", h |-> current_thread]
DefaultApply == [kind |-> "SetThreadContext", h |-> current_thread]

\* As Hwbp_self, with the assignment of enable and enable_with negated.
Hwbp_self_cleared(fn, bp) ==
    IF fn \in {"enable", "enable_with", "disable", "disable_with"}
    THEN [bp EXCEPT !.enabled = FALSE]
    ELSE bp

\* `self` after the first statement: enable sets the flag, disable clears
\* it, apply leaves the descriptor as given.
Hwbp_self(fn, bp) ==
    IF fn \in {"enable", "enable_with"} THEN [bp EXCEPT !.enabled = TRUE]
    ELSE IF fn \in {"disable", "disable_with"}
         THEN [bp EXCEPT !.enabled = FALSE]
    ELSE bp

\* let mut context = HwbpContext::get()?  or  get_with(fetch)?
Hwbp_fetch(lv, fn, fetch, os) ==
    IF fn \in PlainFns THEN HwbpContext_get(lv, os)
    ELSE HwbpContext_get_with(lv, fetch, os)

\* context.apply()  or  context.apply_with(apply)
Hwbp_install(lv, fn, c, apply, os) ==
    IF fn \in PlainFns THEN HwbpContext_apply(lv, c, os)
    ELSE HwbpContext_apply_with(lv, c, apply, os)

\* The value of the last expression: the apply result as it is, or with
\* the descriptor in place of the unit.
Hwbp_result(fn, self, res) ==
    IF res # "Ok" THEN Err(res)
    ELSE IF fn \in {"apply", "apply_with"} THEN Ok("unit")
    ELSE Ok(self)

\* Ok(HwbpContext::get_with(fetch)?.unused_breakpoint())
Hwbp_unused_with(w, lv, fetch, os) ==
    LET r == HwbpContext_get_with(lv, fetch, os)
    IN [res |-> IF r.res # "Ok" THEN Err(r.res)
                ELSE Ok(HwbpContext_unused_breakpoint(w, r.ctx)),
        sys |-> r.sys, fetched |-> r.res]

Hwbp_unused(w, lv, os) == Hwbp_unused_with(w, lv, DefaultFetch, os)

\* A call that has not started.
NewCall(fn, bp, fetch, apply) ==
    [fn |-> fn, bp |-> bp, fetch |-> fetch, apply |-> apply,
     pc |-> "start", self |-> bp, context |-> None, res |-> None,
     log |-> <<>>]

\* The calls one caller can make in a build of width w.
CallInputs(w) ==
    {NewCall(fn, bp, DefaultFetch, DefaultApply) :
        fn \in PlainFns, bp \in ThreadHwbp}
    \cup {NewCall(fn, bp, f, a) :
            fn \in WithFns, bp \in ThreadHwbp, f \in FetchWith,
            a \in ApplyWith(w)}
    \cup {NewCall("unused", None, DefaultFetch, None)}
    \cup {NewCall("unused_with", None, f, None) : f \in FetchWith}

\* One statement of caller c: its record, the threads, and the step.
CallStep(c, call, lv, op, r) ==
    /\ calls' = [calls EXCEPT ![c] = call]
    /\ live' = lv
    /\ old' = live
    /\ last' = [op |-> op, caller |-> c]
    /\ ret' = r
    /\ UNCHANGED <<width, start, ctx, steps, status>>

\* self.enabled = ..; let mut context = HwbpContext::get_with(fetch)?;
CallFetch(c) ==
    /\ calls[c].pc = "start"
    /\ calls[c].fn \notin UnusedFns
    /\ \E os \in OsAnswers :
          LET call == calls[c]
              r == Hwbp_fetch(live, call.fn, call.fetch, os)
          IN CallStep(c,
                 [call EXCEPT
                     !.self = Hwbp_self(call.fn, call.bp),
                     !.context = r.ctx,
                     !.pc = IF r.res = "Ok" THEN "fetched" ELSE "done",
                     !.res = IF r.res = "Ok" THEN None ELSE Err(r.res),
                     !.log = Append(@, [what |-> "fetch",
                                        with |-> call.fetch,
                                        sys |-> r.sys, res |-> r.res])],
                 live, "fetch", r.res)

\* context.set_breakpoint(self);
CallSet(c) ==
    /\ calls[c].pc = "fetched"
    /\ LET call == calls[c]
       IN CallStep(c,
              [call EXCEPT
                  !.context = HwbpContext_set_breakpoint(width, @,
                                                         call.self),
                  !.pc = "set"],
              live, "set_breakpoint", None)

\* context.apply_with(apply).map(|()| self)
CallApply(c) ==
    /\ calls[c].pc = "set"
    /\ \E os \in OsAnswers :
          LET call == calls[c]
              r == Hwbp_install(live, call.fn, call.context, call.apply, os)
          IN CallStep(c,
                 [call EXCEPT
                     !.pc = IF r.res = "NoReturn" THEN "gone" ELSE "done",
                     !.res = IF r.res = "NoReturn" THEN None
                             ELSE Hwbp_result(call.fn, call.self, r.res),
                     !.log = Append(@, [what |-> "apply",
                                        with |-> call.apply,
                                        sys |-> r.sys, res |-> r.res])],
                 r.live, "apply", r.res)

\* Hwbp::unused() and Hwbp::unused_with(fetch).
CallUnused(c) ==
    /\ calls[c].pc = "start"
    /\ calls[c].fn \in UnusedFns
    /\ \E os \in OsAnswers :
          LET call == calls[c]
              r == IF call.fn = "unused" THEN Hwbp_unused(width, live, os)
                   ELSE Hwbp_unused_with(width, live, call.fetch, os)
          IN CallStep(c,
                 [call EXCEPT
                     !.pc = "done",
                     !.res = r.res,
                     !.log = Append(@, [what |-> "fetch",
                                        with |-> call.fetch,
                                        sys |-> r.sys, res |-> r.fetched])],
                 live, "unused", r.fetched)

\* One caller, any call, any strategies.
InitCalls ==
    /\ width \in Widths
    /\ live \in LiveSeeds(width)
    /\ start = live
    /\ old = live
    /\ \E call \in CallInputs(width) : calls = <<call>>
    /\ ctx = None
    /\ last = [op |-> "init"]
    /\ ret = None
    /\ steps = 0
    /\ status = None

NextCalls ==
    \/ \E c \in DOMAIN calls : CallFetch(c)
    \/ \E c \in DOMAIN calls : CallSet(c)
    \/ \E c \in DOMAIN calls : CallApply(c)
    \/ \E c \in DOMAIN calls : CallUnused(c)

SpecCalls == InitCalls /\ [][NextCalls]_vars

\* Two callers, each running apply_with against the same thread through a
\* handle to it; their statements interleave in any order.
RaceCalls(t) ==
    {NewCall("apply_with", bp,
             [kind |-> "GetThreadContextOther", h |-> t],
             [kind |-> "SetThreadContextOther", h |-> t]) :
        bp \in ThreadHwbp}

InitRace ==
    /\ width \in Widths
    /\ live \in LiveSeeds(width)
    /\ start = live
    /\ old = live
    /\ \E t \in Threads : \E c1 \in RaceCalls(t), c2 \in RaceCalls(t) :
          calls = <<c1, c2>>
    /\ ctx = None
    /\ last = [op |-> "init"]
    /\ ret = None
    /\ steps = 0
    /\ status = None

NextRace ==
    \/ \E c \in DOMAIN calls : CallFetch(c)
    \/ \E c \in DOMAIN calls : CallSet(c)
    \/ \E c \in DOMAIN calls : CallApply(c)

SpecRace == InitRace /\ [][NextRace]_vars

(***************************************************************************)
(* hwbp_context.rs: get_with, statement by statement.  `status` is the     *)
(* strategy the caller passed, `ctx` the local `context`, `start` the      *)
(* record as the strategy received it, `ret` what the function returned.   *)
(***************************************************************************)
InitGet ==
    /\ width \in Widths
    /\ live \in LiveSeeds(width)
    /\ status \in FetchWith
    /\ ctx = None
    /\ start = None
    /\ old = None
    /\ last = [op |-> "init"]
    /\ ret = None
    /\ steps = 0
    /\ calls = <<>>

\* One statement of get_with: the local after it, and what it is.
GetStep(c, l) ==
    /\ ctx' = c
    /\ old' = ctx
    /\ last' = l
    /\ steps' = steps + 1
    /\ UNCHANGED <<width, live, status, calls>>

\* let mut context: Self = unsafe { std::mem::zeroed() };
GetZeroed ==
    /\ last.op = "init"
    /\ GetStep(ZeroedContext, [op |-> "zeroed"])
    /\ UNCHANGED <<start, ret>>

\* context.0.ContextFlags = CONTEXT_DEBUG_REGISTERS;
GetFlags ==
    /\ last.op = "zeroed"
    /\ GetStep([ctx EXCEPT !.ContextFlags = CONTEXT_DEBUG_REGISTERS],
               [op |-> "flags"])
    /\ UNCHANGED <<start, ret>>

\* with.fetch_context(&mut context.0)
GetFetch ==
    /\ last.op = "flags"
    /\ \E os \in OsAnswers :
          LET r == FetchWith_fetch_context(live, status, ctx, os)
          IN /\ GetStep(r.context, [op |-> "fetch", res |-> r.res, os |-> os])
             /\ start' = ctx
             /\ UNCHANGED ret

\* `?` on the fetch result, then Ok(context).
GetReturn ==
    /\ last.op = "fetch"
    /\ GetStep(ctx, [op |-> "return", os |-> last.os])
    /\ ret' = IF last.res # "Ok" THEN Err(last.res) ELSE Ok(ctx)
    /\ UNCHANGED start

NextGet ==
    \/ GetZeroed
    \/ GetFlags
    \/ GetFetch
    \/ GetReturn

SpecGet == InitGet /\ [][NextGet]_vars

(***************************************************************************)
(* A wrapper made with from_context from a record the caller holds, with   *)
(* whatever flags it carries; it is written and applied as a fetched one.  *)
(***************************************************************************)
\* The records a caller may hold: with the debug-register flag alone, with
\* every part selected, and without the debug registers.
WrapSeeds(w) ==
    SeedContexts(w) \cup
        {[Dr0 |-> MaxAddr, Dr1 |-> 0, Dr2 |-> 0, Dr3 |-> MaxAddr,
          Dr6 |-> {1, 16}, Dr7 |-> {2, 6, 10, 20, 30},
          ContextFlags |-> CaptureFlags]}

InitWrap ==
    /\ width \in Widths
    /\ live \in LiveSeeds(width)
    /\ start \in WrapSeeds(width)
    /\ ctx = HwbpContext_into_context(
                 HwbpContext_from_context(Owned(start))).rec
    /\ old = start
    /\ last = [op |-> "init"]
    /\ ret = None
    /\ steps = 0
    /\ status = start.Dr6
    /\ calls = <<>>

SpecWrap == InitWrap /\ [][NextSnapshot]_vars

(***************************************************************************)
(* The two exception handlers of the repository, statement by statement:   *)
(* the test's (tests.rs), which wraps a borrow of the trap's record, and   *)
(* the one of the crate documentation (lib.rs), which wraps a copy and     *)
(* writes it back.  `status` is the record `cr` the system resumes from,   *)
(* `ctx` the wrapper, calls[1] the handler's position and locals, `ret`    *)
(* what the handler returned.                                              *)
(***************************************************************************)
\* The status a trap leaves in Dr6.
TrapStatus == {{0}, {1, 16}, {0, 2}, {3, 14, 16}}

\* The records a trap delivers: every part selected.
TrapRecords(w) ==
    {[c EXCEPT !.Dr6 = d, !.ContextFlags = FullFlags] :
        c \in SeedContexts(w), d \in TrapStatus}

InitHandler ==
    /\ width \in Widths
    /\ live \in LiveSeeds(width)
    /\ status \in TrapRecords(width)
    /\ start = status
    /\ old = status
    /\ ctx = None
    /\ \E fn \in {"tests::handler", "doc handler"},
          code \in {"EXCEPTION_SINGLE_STEP", "EXCEPTION_BREAKPOINT"},
          clear \in BOOLEAN :
          /\ fn = "doc handler" => ~clear
          /\ calls = <<[fn |-> fn, ExceptionCode |-> code,
                        CLEAR_BP_ON_HIT |-> clear, pc |-> "entry",
                        dr6 |-> None, hwbp |-> None]>>
    /\ last = [op |-> "init"]
    /\ ret = None
    /\ steps = 0

\* One statement of the handler: the wrapper, the record, the handler's
\* position and locals and its return value afterwards.
HandlerStep(self, cr, call, op, r) ==
    /\ ctx' = self
    /\ status' = cr
    /\ old' = status
    /\ calls' = <<call>>
    /\ last' = [op |-> op]
    /\ ret' = r
    /\ UNCHANGED <<width, start, live>>

\* A wrapper operation that turns the record the wrapper holds into `new`.
HandlerWrite(new, pc, op, r) ==
    LET w == HwbpContext_borrow_mut(ctx, status, new)
    IN HandlerStep(w.self, w.cr, [calls[1] EXCEPT !.pc = pc], op, r)

\* let mut ctx = HwbpContext::from_context(cr);
TestFromContext ==
    /\ calls[1].fn = "tests::handler"
    /\ calls[1].pc = "entry"
    /\ HandlerStep(HwbpContext_from_context(Borrowed), status,
                   [calls[1] EXCEPT !.pc = "wrapped"], "from_context", None)
    /\ UNCHANGED steps

\* er.ExceptionCode is not EXCEPTION_SINGLE_STEP.
TestSearch ==
    /\ calls[1].fn = "tests::handler"
    /\ calls[1].pc = "wrapped"
    /\ calls[1].ExceptionCode # "EXCEPTION_SINGLE_STEP"
    /\ HandlerStep(ctx, status, [calls[1] EXCEPT !.pc = "returned"],
                   "return", "EXCEPTION_CONTINUE_SEARCH")
    /\ UNCHANGED steps

\* if CLEAR_BP_ON_HIT { ctx.clear_breakpoints(); }
TestClear ==
    /\ calls[1].fn = "tests::handler"
    /\ calls[1].pc = "wrapped"
    /\ calls[1].ExceptionCode = "EXCEPTION_SINGLE_STEP"
    /\ calls[1].CLEAR_BP_ON_HIT
    /\ HandlerWrite(HwbpContext_clear_breakpoints(
                        HwbpContext_borrow(ctx, status)),
                    "cleared", "clear_breakpoints", None)
    /\ UNCHANGED steps

\* ctx.dr6_mut().reset(); return EXCEPTION_CONTINUE_EXECUTION;
TestReset ==
    /\ calls[1].fn = "tests::handler"
    /\ calls[1].ExceptionCode = "EXCEPTION_SINGLE_STEP"
    /\ \/ calls[1].pc = "cleared"
       \/ calls[1].pc = "wrapped" /\ ~calls[1].CLEAR_BP_ON_HIT
    /\ LET c == HwbpContext_borrow(ctx, status)
       IN HandlerWrite([c EXCEPT !.Dr6 = Dr6_reset(width, c.Dr6).reg],
                       "returned", "dr6_reset",
                       "EXCEPTION_CONTINUE_EXECUTION")
    /\ UNCHANGED steps

\* er.ExceptionCode is not EXCEPTION_SINGLE_STEP.
DocSearch ==
    /\ calls[1].fn = "doc handler"
    /\ calls[1].pc = "entry"
    /\ calls[1].ExceptionCode # "EXCEPTION_SINGLE_STEP"
    /\ HandlerStep(ctx, status, [calls[1] EXCEPT !.pc = "returned"],
                   "return", "EXCEPTION_CONTINUE_SEARCH")
    /\ UNCHANGED steps

\* let mut context = HwbpContext::from_context(*cr);
DocFromContext ==
    /\ calls[1].fn = "doc handler"
    /\ calls[1].pc = "entry"
    /\ calls[1].ExceptionCode = "EXCEPTION_SINGLE_STEP"
    /\ HandlerStep(HwbpContext_from_context(Owned(status)), status,
                   [calls[1] EXCEPT !.pc = "wrapped"], "from_context", None)
    /\ UNCHANGED steps

\* let dr6 = reset_dr6(cr);
DocResetDr6 ==
    /\ calls[1].fn = "doc handler"
    /\ calls[1].pc = "wrapped"
    /\ LET r == reset_dr6(width, status)
       IN HandlerStep(ctx, r.ctx,
                      [calls[1] EXCEPT !.pc = "dr6", !.dr6 = r.ret],
                      "reset_dr6", None)
    /\ UNCHANGED steps

\* let hwbp = context.breakpoint_by_dr6(dr6);
DocBreakpointByDr6 ==
    /\ calls[1].fn = "doc handler"
    /\ calls[1].pc = "dr6"
    /\ HandlerStep(ctx, status,
                   [calls[1] EXCEPT
                       !.pc = "modify",
                       !.hwbp = HwbpContext_breakpoint_by_dr6(width,
                                    HwbpContext_borrow(ctx, status),
                                    calls[1].dr6)],
                   "breakpoint_by_dr6", None)
    /\ UNCHANGED steps

\* [Make any desired modifications to the context here.]
DocModify ==
    /\ calls[1].fn = "doc handler"
    /\ calls[1].pc = "modify"
    /\ steps < MaxSets
    /\ steps' = steps + 1
    /\ LET c == HwbpContext_borrow(ctx, status)
       IN \/ \E bp \in ThreadHwbp :
                HandlerWrite(HwbpContext_set_breakpoint(width, c, bp),
                             "modify", "set_breakpoint", None)
          \/ HandlerWrite(HwbpContext_clear_breakpoints(c),
                          "modify", "clear_breakpoints", None)
          \/ HandlerWrite([c EXCEPT !.Dr6 = Dr6_reset(width, c.Dr6).reg],
                          "modify", "dr6_reset", None)

\* *cr = context.into_context(); return EXCEPTION_CONTINUE_EXECUTION;
DocWriteBack ==
    /\ calls[1].fn = "doc handler"
    /\ calls[1].pc = "modify"
    /\ HandlerStep(ctx, HwbpContext_into_context(ctx).rec,
                   [calls[1] EXCEPT !.pc = "returned"], "into_context",
                   "EXCEPTION_CONTINUE_EXECUTION")
    /\ UNCHANGED steps

NextHandler ==
    \/ TestFromContext
    \/ TestSearch
    \/ TestClear
    \/ TestReset
    \/ DocSearch
    \/ DocFromContext
    \/ DocResetDr6
    \/ DocBreakpointByDr6
    \/ DocModify
    \/ DocWriteBack

SpecHandler == InitHandler /\ [][NextHandler]_vars

(***************************************************************************)
(* raw.rs as called directly: one call of set_breakpoint, get_breakpoint   *)
(* or clear_breakpoints on a record the caller holds.                      *)
(***************************************************************************)
\* Control values of the caller's record: no or all local-enable bits, every
\* condition and size code in every slot, the other bits clear or set.
EncoderDr7(w) ==
    {e \cup InfoPattern(c, s, r) \cup u :
        e \in {{}, {0, 2, 4, 6}}, c \in 0 .. 3, s \in 0 .. 3, r \in 0 .. 1,
        u \in {{}, UnreadBits(w)}}

InitEncoders ==
    /\ width \in Widths
    /\ \/ ctx \in SeedContexts(width)
       \/ \E v \in EncoderDr7(width) :
             ctx = [Dr0 |-> MaxAddr, Dr1 |-> 0, Dr2 |-> MaxAddr,
                    Dr3 |-> MaxAddr, Dr6 |-> {0, 16}, Dr7 |-> v,
                    ContextFlags |-> DebugFlags]
    /\ start = ctx
    /\ old = ctx
    /\ last = [op |-> "init"]
    /\ ret = None
    /\ steps = 0
    /\ status = ctx.Dr6
    /\ live = <<>>
    /\ calls = <<>>

\* The one call: the record after it, what it is, what it returned.
RawCall(c, l, r) ==
    /\ last.op = "init"
    /\ ctx' = c
    /\ old' = ctx
    /\ last' = l
    /\ ret' = r
    /\ UNCHANGED <<width, start, steps, status, live, calls>>

RawSetBreakpoint ==
    \E bp \in Hwbp :
        RawCall(raw_set_breakpoint(width, ctx, bp),
                [op |-> "raw::set_breakpoint", bp |-> bp], None)

RawGetBreakpoint ==
    \E index \in Index :
        RawCall(ctx, [op |-> "raw::get_breakpoint", index |-> index],
                raw_get_breakpoint(width, ctx, index))

RawClearBreakpoints ==
    RawCall(raw_clear_breakpoints(ctx), [op |-> "raw::clear_breakpoints"],
            None)

NextEncoders ==
    \/ RawSetBreakpoint
    \/ RawGetBreakpoint
    \/ RawClearBreakpoints

SpecEncoders == InitEncoders /\ [][NextEncoders]_vars

(***************************************************************************)
(* registers.rs: Dr7::clear_breakpoint on each slot once, in any order, or *)
(* Dr7::clear_breakpoints once.  `status` is the set of slots cleared so   *)
(* far.                                                                    *)
(***************************************************************************)
InitClear ==
    /\ width \in Widths
    /\ \/ ctx \in SeedContexts(width)
       \/ \E v \in EncoderDr7(width) :
             ctx = [Dr0 |-> MaxAddr, Dr1 |-> 0, Dr2 |-> MaxAddr,
                    Dr3 |-> MaxAddr, Dr6 |-> {0, 16}, Dr7 |-> v,
                    ContextFlags |-> DebugFlags]
    /\ start = ctx
    /\ old = ctx
    /\ last = [op |-> "init"]
    /\ ret = None
    /\ steps = 0
    /\ status = {}
    /\ live = <<>>
    /\ calls = <<>>

\* dr7_mut().clear_breakpoint(index), on a slot not cleared before.
ClearSlot ==
    \E index \in Index \ status :
        /\ last.op # "dr7_clear_breakpoints"
        /\ ctx' = [ctx EXCEPT !.Dr7 = Dr7_clear_breakpoint(width, @, index)]
        /\ old' = ctx
        /\ last' = [op |-> "dr7_clear_breakpoint", index |-> index]
        /\ status' = status \cup {index}
        /\ UNCHANGED <<width, start, ret, steps, live, calls>>

\* dr7_mut().clear_breakpoints(), on the record as it came.
ClearAll ==
    /\ last.op = "init"
    /\ ctx' = [ctx EXCEPT !.Dr7 = Dr7_clear_breakpoints(@)]
    /\ old' = ctx
    /\ last' = [op |-> "dr7_clear_breakpoints"]
    /\ UNCHANGED <<width, start, ret, steps, status, live, calls>>

NextClear ==
    \/ ClearSlot
    \/ ClearAll

SpecClear == InitClear /\ [][NextClear]_vars

(***************************************************************************)
(* registers.rs: EFlags over u32, the value as its set of 1-bit positions. *)
(***************************************************************************)
\* self.read() & 1 << 8 != 0
EFlags_trap(e) == e \cap {8} # {}

\* self.read() & 1 << 16 != 0
EFlags_resume(e) == e \cap {16} # {}

\* self.write(self.read() | (value as u32) << 8): value as u32 is 1 or 0,
\* so the operand of | is 1 << 8 or 0.
EFlags_set_trap(e, value) == e \cup (IF value THEN {8} ELSE {})

\* self.write(self.read() | (value as u32) << 16)
EFlags_set_resume(e, value) == e \cup (IF value THEN {16} ELSE {})

(***************************************************************************)
(* hwbp_context.rs: a sequence of set_breakpoint calls on one wrapper.     *)
(* `calls` is the sequence of the descriptors written so far.              *)
(***************************************************************************)
\* The descriptors written in a sequence: two slots, the flag either way,
\* both ends of the address range, three pairs of size and condition.
SeqHwbp ==
    {[enabled |-> e, index |-> i, address |-> a, size |-> sc[1],
      condition |-> sc[2]] :
        e \in BOOLEAN, i \in {"First", "Fourth"}, a \in {0, MaxAddr},
        sc \in {<<"One", "Execution">>, <<"Eight", "ReadWrite">>,
                <<"Two", "Write">>}}

InitSeq ==
    /\ width \in Widths
    /\ ctx \in SeedContexts(width)
    /\ start = ctx
    /\ old = ctx
    /\ last = [op |-> "init"]
    /\ ret = None
    /\ steps = 0
    /\ status = ctx.Dr6
    /\ live = <<>>
    /\ calls = <<>>

\* context.set_breakpoint(bp)
SeqSetBreakpoint ==
    \E bp \in SeqHwbp :
        /\ steps < MaxWrites
        /\ steps' = steps + 1
        /\ ctx' = HwbpContext_set_breakpoint(width, ctx, bp)
        /\ old' = ctx
        /\ last' = [op |-> "set_breakpoint", bp |-> bp]
        /\ calls' = Append(calls, bp)
        /\ UNCHANGED <<width, start, ret, status, live>>

\* context.breakpoint(index), after the writes, of the slot written first
\* or of the slot written last.
SeqBreakpoint ==
    \E index \in {calls[k].index : k \in {1, Len(calls)} \cap DOMAIN calls} :
        /\ last.op = "set_breakpoint"
        /\ ctx' = ctx
        /\ old' = ctx
        /\ last' = [op |-> "breakpoint", index |-> index]
        /\ ret' = HwbpContext_breakpoint(width, ctx, index)
        /\ UNCHANGED <<width, start, steps, status, live, calls>>

NextSeq ==
    \/ SeqSetBreakpoint
    \/ SeqBreakpoint

SpecSeq == InitSeq /\ [][NextSeq]_vars

(***************************************************************************)
(* registers.rs: the EFlags wrapper over the EFlags field of a record.     *)
(***************************************************************************)
\* Bit positions of the prior EFlags values: the carry flag, the trap flag
\* and both its neighbours, the resume flag and its neighbour, the top bit.
EFlagsBits == {0, 7, 8, 9, 16, 17, 31}

InitEFlags ==
    /\ width \in Widths
    /\ ctx \in {[EFlags |-> e] : e \in SUBSET EFlagsBits}
    /\ start = ctx
    /\ old = ctx
    /\ last = [op |-> "init"]
    /\ ret = None
    /\ steps = 0
    /\ status = {}
    /\ live = <<>>
    /\ calls = <<>>

EFlagsWrite(e, op, value) ==
    /\ steps < MaxWrites
    /\ last.op \in {"init", "set_trap", "set_resume"}
    /\ steps' = steps + 1
    /\ ctx' = [ctx EXCEPT !.EFlags = e]
    /\ old' = ctx
    /\ last' = [op |-> op, value |-> value]
    /\ UNCHANGED <<width, start, ret, status, live, calls>>

EFlagsRead(op, r) ==
    /\ last.op \in {"set_trap", "set_resume"}
    /\ ret' = r
    /\ last' = [op |-> op, after |-> last]
    /\ UNCHANGED <<width, start, ctx, old, steps, status, live, calls>>

\* EFlags(&mut ctx.EFlags).set_trap(value)
EFlagsSetTrap ==
    \E value \in BOOLEAN :
        EFlagsWrite(EFlags_set_trap(ctx.EFlags, value), "set_trap", value)

\* EFlags(&mut ctx.EFlags).set_resume(value)
EFlagsSetResume ==
    \E value \in BOOLEAN :
        EFlagsWrite(EFlags_set_resume(ctx.EFlags, value), "set_resume", value)

\* EFlags(&ctx.EFlags).trap()
EFlagsTrap == EFlagsRead("trap", EFlags_trap(ctx.EFlags))

\* EFlags(&ctx.EFlags).resume()
EFlagsResume == EFlagsRead("resume", EFlags_resume(ctx.EFlags))

NextEFlags ==
    \/ EFlagsSetTrap
    \/ EFlagsSetResume
    \/ EFlagsTrap
    \/ EFlagsResume

SpecEFlags == InitEFlags /\ [][NextEFlags]_vars

(***************************************************************************)
(* Properties.                                                             *)
(***************************************************************************)
\* Bit positions of slot `index` in Dr7, as the documentation gives them.
LocalBit(index) == 2 * IndexAs(index)
GlobalBit(index) == 2 * IndexAs(index) + 1
CondBits(index) == (16 + 4 * IndexAs(index)) .. (17 + 4 * IndexAs(index))
SizeBits(index) == (18 + 4 * IndexAs(index)) .. (19 + 4 * IndexAs(index))
InfoBits(index) == CondBits(index) \cup SizeBits(index)
SlotBits(index) == {LocalBit(index), GlobalBit(index)} \cup InfoBits(index)
ReservedBits == 8 .. 15

\* The bits in which two words differ.
Diff(a, b) == (a \ b) \cup (b \ a)

\* C1: after set_breakpoint(d), breakpoint(d.index) returns a descriptor
\* equal to d in all five fields, whatever the context held before and
\* whatever d is (Execution with a size other than One included).
C1_RoundTrip ==
    last.op = "set_breakpoint" =>
        LET got == HwbpContext_breakpoint(width, ctx, last.bp.index)
        IN /\ got.enabled = last.bp.enabled
           /\ got.index = last.bp.index
           /\ got.address = last.bp.address
           /\ got.size = last.bp.size
           /\ got.condition = last.bp.condition

\* An enabled Execution breakpoint of size Eight at a nonzero address has
\* been written over a slot whose control bits were all ones, and reads back.
C1_Witness ==
    /\ last.op = "set_breakpoint"
    /\ last.bp.condition = "Execution"
    /\ last.bp.size = "Eight"
    /\ last.bp.enabled
    /\ last.bp.address # 0
    /\ SlotBits(last.bp.index) \subseteq old.Dr7
    /\ HwbpContext_breakpoint(width, ctx, last.bp.index) = last.bp

\* C2: set_breakpoint(d) for slot i changes only the address register of
\* slot i and, in Dr7, only bit 2*i and bits 16+4*i .. 19+4*i; every other
\* slot keeps its address, enable bits, condition and size, bits 8-15 of
\* Dr7 and Dr6 are unchanged.
C2_Independence ==
    last.op = "set_breakpoint" =>
        LET i == last.bp.index
        IN /\ Diff(old.Dr7, ctx.Dr7) \subseteq ({LocalBit(i)} \cup InfoBits(i))
           /\ \A j \in Index \ {i} :
                /\ ctx[DrField(j)] = old[DrField(j)]
                /\ Dr7_enabled_local(width, ctx.Dr7, j)
                     = Dr7_enabled_local(width, old.Dr7, j)
                /\ Dr7_enabled_global(width, ctx.Dr7, j)
                     = Dr7_enabled_global(width, old.Dr7, j)
                /\ Dr7_condition(ctx.Dr7, j) = Dr7_condition(old.Dr7, j)
                /\ Dr7_size(ctx.Dr7, j) = Dr7_size(old.Dr7, j)
           /\ ctx.Dr7 \cap ReservedBits = old.Dr7 \cap ReservedBits
           /\ ctx.Dr6 = old.Dr6

\* Slot Third has been rewritten (address, enable bit, condition and size
\* all changed) in a context whose other slots are in use.
C2_Witness ==
    /\ last.op = "set_breakpoint"
    /\ last.bp.index = "Third"
    /\ ctx.Dr2 # old.Dr2
    /\ Diff(old.Dr7, ctx.Dr7) = {LocalBit("Third")} \cup InfoBits("Third")
    /\ old.Dr7 \cap SlotBits("Fourth") # {}
    /\ old.Dr7 \cap SlotBits("First") # {}
    /\ old.Dr7 \cap ReservedBits # {}
    /\ old.Dr3 # 0

\* C3: set_breakpoint(d) never changes a global-enable bit, that of slot
\* d.index included.
C3_GlobalEnableUntouched ==
    last.op = "set_breakpoint" =>
        \A i \in Index :
            /\ Dr7_enabled_global(width, ctx.Dr7, i)
                 = Dr7_enabled_global(width, old.Dr7, i)
            /\ (GlobalBit(i) \in ctx.Dr7) = (GlobalBit(i) \in old.Dr7)

\* A disabled descriptor has been written to a slot whose global-enable
\* bit was set, and the bit is still set.
C3_Witness ==
    /\ last.op = "set_breakpoint"
    /\ ~last.bp.enabled
    /\ GlobalBit(last.bp.index) \in old.Dr7
    /\ LocalBit(last.bp.index) \in old.Dr7
    /\ LocalBit(last.bp.index) \notin ctx.Dr7
    /\ Dr7_enabled_global(width, ctx.Dr7, last.bp.index)

\* The 2-bit code held at bits off, off+1 of a word.
Code(v, off) == (IF off \in v THEN 1 ELSE 0) + (IF (off + 1) \in v THEN 2 ELSE 0)

Fields == {"local", "global", "condition", "size"}
Field(k, index) == CASE k = "local" -> {LocalBit(index)}
                     [] k = "global" -> {GlobalBit(index)}
                     [] k = "condition" -> CondBits(index)
                     [] k = "size" -> SizeBits(index)

\* The sixteen fields are pairwise disjoint, within bits 0..31 and outside
\* bits 8-15.
FieldsApart ==
    \A k1 \in Fields, k2 \in Fields, i1 \in Index, i2 \in Index :
        /\ Field(k1, i1) \subseteq 0 .. 31
        /\ Field(k1, i1) \cap ReservedBits = {}
        /\ (k1 # k2 \/ i1 # i2) => Field(k1, i1) \cap Field(k2, i2) = {}

\* C4: in every Dr7 value, enabled_local(i) is bit 2*i, enabled_global(i)
\* bit 2*i+1, condition(i) the variant coded by bits 16+4*i..17+4*i and
\* size(i) the variant coded by bits 18+4*i..19+4*i; each setter writes
\* exactly its field; the sixteen fields are pairwise disjoint, lie in bits
\* 0..31 and miss bits 8-15.
C4_BitLayout ==
    /\ \A i \in Index :
         /\ Dr7_enabled_local(width, ctx.Dr7, i) = (LocalBit(i) \in ctx.Dr7)
         /\ Dr7_enabled_global(width, ctx.Dr7, i) = (GlobalBit(i) \in ctx.Dr7)
         /\ Condition_as_bits(Dr7_condition(ctx.Dr7, i))
              = Code(ctx.Dr7, 16 + 4 * IndexAs(i))
         /\ Size_as_bits(Dr7_size(ctx.Dr7, i))
              = Code(ctx.Dr7, 18 + 4 * IndexAs(i))
    /\ last.op = "set_enabled_local" =>
         /\ Diff(old.Dr7, ctx.Dr7) \subseteq Field("local", last.index)
         /\ (LocalBit(last.index) \in ctx.Dr7) = last.enabled
    /\ last.op = "set_enabled_global" =>
         /\ Diff(old.Dr7, ctx.Dr7) \subseteq Field("global", last.index)
         /\ (GlobalBit(last.index) \in ctx.Dr7) = last.enabled
    /\ last.op = "set_condition" =>
         /\ Diff(old.Dr7, ctx.Dr7) \subseteq Field("condition", last.index)
         /\ Code(ctx.Dr7, 16 + 4 * IndexAs(last.index))
              = Condition_as_bits(last.condition)
    /\ last.op = "set_size" =>
         /\ Diff(old.Dr7, ctx.Dr7) \subseteq Field("size", last.index)
         /\ Code(ctx.Dr7, 18 + 4 * IndexAs(last.index))
              = Size_as_bits(last.size)
    /\ FieldsApart

\* The condition of slot Fourth has been set to ReadWrite over another
\* condition, in a register with other bits set.
C4_Witness ==
    /\ last.op = "set_condition"
    /\ last.index = "Fourth"
    /\ last.condition = "ReadWrite"
    /\ Dr7_condition(old.Dr7, "Fourth") = "Write"
    /\ Dr7_condition(ctx.Dr7, "Fourth") = "ReadWrite"
    /\ ctx.Dr7 \cap CondBits("Fourth") = {28, 29}
    /\ ctx.Dr7 \cap ReservedBits # {}

\* C5: after any sequence of set_breakpoint, clear_breakpoints, Dr7
\* clear_breakpoint, Dr7 setters and Dr6 resets, bits 8-15 of Dr7 are as
\* in the starting context.
C5_ReservedBitsKept ==
    ctx.Dr7 \cap ReservedBits = start.Dr7 \cap ReservedBits

\* A set_breakpoint followed by clear_breakpoints, from a context with some
\* but not all of bits 8-15 set: only those bits are left in Dr7.
C5_Witness ==
    /\ steps = 2
    /\ last.op = "clear_breakpoints"
    /\ old.Dr7 # start.Dr7
    /\ start.Dr7 \cap ReservedBits \notin {{}, ReservedBits}
    /\ ctx.Dr7 = start.Dr7 \cap ReservedBits

\* C6: after clear_breakpoints() DR0-DR3 are 0, every local-enable,
\* global-enable, condition and size bit of Dr7 is 0, breakpoints() yields
\* four descriptors with enabled = false and address = 0, and
\* unused_breakpoint() returns the descriptor of slot First.
C6_Clear ==
    last.op = "clear_breakpoints" =>
        /\ ctx.Dr0 = 0 /\ ctx.Dr1 = 0 /\ ctx.Dr2 = 0 /\ ctx.Dr3 = 0
        /\ \A i \in Index : ctx.Dr7 \cap SlotBits(i) = {}
        /\ LET bps == HwbpContext_breakpoints(width, ctx)
           IN /\ Len(bps) = 4
              /\ \A k \in 1 .. 4 : ~bps[k].enabled /\ bps[k].address = 0
        /\ LET u == HwbpContext_unused_breakpoint(width, ctx)
           IN /\ u # None
              /\ u[1].index = "First"
              /\ u[1] = HwbpContext_breakpoint(width, ctx, "First")

\* clear_breakpoints() has run on a context whose four slots were enabled
\* at nonzero addresses.
C6_Witness ==
    /\ last.op = "clear_breakpoints"
    /\ \A i \in Index : LocalBit(i) \in old.Dr7 /\ old[DrField(i)] # 0
    /\ HwbpContext_unused_breakpoint(width, old) = None
    /\ HwbpContext_unused_breakpoint(width, ctx) # None

\* C7: breakpoints() is [bit 0, bit 1, bit 2, bit 3] of the Dr6 value,
\* debug_register_access() bit 13, single_step() bit 14, task_switch() bit
\* 15, breakpoint() whether any of bits 0-3 is set, breakpoint_at(i) the
\* i-th element of breakpoints(); no reader changes the register.
Dr6Readers == {"dr6.breakpoint", "dr6.breakpoint_at", "dr6.breakpoints",
               "dr6.debug_register_access", "dr6.single_step",
               "dr6.task_switch"}

C7_StatusDecode ==
    last.op \in Dr6Readers =>
        /\ ctx = old
        /\ last.op = "dr6.breakpoints" =>
             ret = <<0 \in ctx.Dr6, 1 \in ctx.Dr6, 2 \in ctx.Dr6, 3 \in ctx.Dr6>>
        /\ last.op = "dr6.debug_register_access" => ret = (13 \in ctx.Dr6)
        /\ last.op = "dr6.single_step" => ret = (14 \in ctx.Dr6)
        /\ last.op = "dr6.task_switch" => ret = (15 \in ctx.Dr6)
        /\ last.op = "dr6.breakpoint" => ret = (ctx.Dr6 \cap HitBits # {})
        /\ last.op = "dr6.breakpoint_at" =>
             /\ ret = Dr6_breakpoints(ctx.Dr6)[IndexAs(last.index) + 1]
             /\ ret = (IndexAs(last.index) \in ctx.Dr6)

\* breakpoints() has decoded 0b1010 (with bit 14 set as well) to slots
\* Second and Fourth.
C7_Witness ==
    /\ last.op = "dr6.breakpoints"
    /\ ctx.Dr6 = {1, 3, 14}
    /\ ret = <<FALSE, TRUE, FALSE, TRUE>>
    /\ Dr6_single_step(width, ctx.Dr6)
    /\ ~Dr6_debug_register_access(width, ctx.Dr6)

\* C8: Dr6::reset() and reset_dr6 return the prior value and leave Dr6
\* equal to exactly 1 << 16, so that every flag reads false; a reset of an
\* already reset register returns 1 << 16 and leaves 1 << 16; no other
\* register changes.
C8_Reset ==
    last.op \in {"dr6_reset", "reset_dr6"} =>
        /\ ret = old.Dr6
        /\ ctx.Dr6 = {16}
        /\ ctx = [old EXCEPT !.Dr6 = {16}]
        /\ Dr6_breakpoints(ctx.Dr6) = <<FALSE, FALSE, FALSE, FALSE>>
        /\ ~Dr6_breakpoint(ctx.Dr6)
        /\ ~Dr6_debug_register_access(width, ctx.Dr6)
        /\ ~Dr6_single_step(width, ctx.Dr6)
        /\ ~Dr6_task_switch(width, ctx.Dr6)
        /\ old.Dr6 = {16} => (ret = {16} /\ ctx = old)

\* A second reset, after a first one of a register with hit flags set.
C8_Witness ==
    /\ steps = 2
    /\ last.op \in {"dr6_reset", "reset_dr6"}
    /\ start.Dr6 \cap HitBits # {}
    /\ old.Dr6 = {16}
    /\ ret = {16}
    /\ ctx.Dr6 = {16}

\* The slot named by a status value: that of its only hit flag, if it has
\* exactly one among bits 0-3.
Single(v) ==
    IF Cardinality(v \cap HitBits) = 1
    THEN Some(IndexOrder[(CHOOSE b \in v \cap HitBits : TRUE) + 1])
    ELSE None

\* C9: Index::by_dr6(v) and breakpoint_by_dr6(v) return slot i exactly when
\* bit i is the only one of bits 0-3 set in v, whatever bits 4 and above
\* are, and None (no error, no panic) otherwise.
C9_SingleBreakpoint ==
    /\ last.op = "Index::by_dr6" => ret = Single(status)
    /\ last.op = "breakpoint_by_dr6" =>
         ret = IF Single(status) = None THEN None
               ELSE Some(HwbpContext_breakpoint(width, ctx, Single(status)[1]))

\* by_dr6 has named slot Third for a value with bit 2 and higher bits set.
C9_Witness ==
    /\ last.op = "Index::by_dr6"
    /\ status \cap HitBits = {2}
    /\ 16 \in status
    /\ (width - 1) \in status
    /\ ret = Some("Third")

\* The flagged slots of a status value, in ascending order.
Flagged(v) == SelectSeq(IndexOrder, LAMBDA x : IndexAs(x) \in v)

Asserted(v) ==
    [k \in 1 .. Len(Flagged(v)) |->
        HwbpContext_breakpoint(width, ctx, Flagged(v)[k])]

Covers(d, n, a) == PtrLe(d, a) /\ (a < 0) = (d < 0) /\ a - d < n

\* The slots whose span covers the address, in ascending order.
Covering(w, c, a) ==
    SelectSeq(HwbpContext_breakpoints(w, c),
              LAMBDA x : Covers(c[DrField(x.index)],
                                Size_in_bytes(Dr7_size(c.Dr7, x.index)), a))

\* Some slot's span reaches the end of the address space.
SpanLeaves(w, c) ==
    \E i \in Index :
        PtrAdd(c[DrField(i)], Size_in_bytes(Dr7_size(c.Dr7, i))).overflow

\* C11: breakpoints_by_address(a) yields, in ascending slot order, exactly
\* the slots i with DRi <= a < DRi + size_i.in_bytes(), enabled or not, for
\* every context and address.
C11_OverlapQuery ==
    last.op = "breakpoints_by_address" =>
        /\ ~ret.panic
        /\ ret.items = Covering(width, ctx, last.address)

\* C11, away from the end of the address space: the same, for the contexts
\* in which no slot's span reaches the end of the address space.
C11_WithinAddressSpace ==
    (last.op = "breakpoints_by_address" /\ ~SpanLeaves(width, ctx)) =>
        /\ ~ret.panic
        /\ ret.items = Covering(width, ctx, last.address)

\* The example of the claim with A = 0: slot First = (0, Four), slot
\* Second = (4, One), the other slots at address 0 with size One; the
\* query of A + 4 has yielded slot Second alone.
C11_Example ==
    /\ last.op = "breakpoints_by_address"
    /\ last.address = 4
    /\ ctx.Dr0 = 0 /\ Dr7_size(ctx.Dr7, "First") = "Four"
    /\ ctx.Dr1 = 4 /\ Dr7_size(ctx.Dr7, "Second") = "One"
    /\ ctx.Dr2 = 0 /\ ctx.Dr3 = 0
    /\ Len(ret.items) = 1
    /\ ret.items[1].index = "Second"

\* The slots whose local-enable bit is clear.
Unused(v) == {i \in Index : LocalBit(i) \notin v}

\* C12: unused_breakpoint() returns the descriptor of the lowest-numbered
\* slot whose local-enable bit (Dr7 bit 2*i) is clear, and None exactly
\* when all four local-enable bits are set; breakpoints() yields exactly
\* four descriptors, in the order First, Second, Third, Fourth.
C12_UnusedAndAll ==
    /\ last.op = "unused_breakpoint" =>
          /\ (ret = None) = (Unused(ctx.Dr7) = {})
          /\ ret # None =>
                /\ ret[1].index \in Unused(ctx.Dr7)
                /\ \A i \in Unused(ctx.Dr7) :
                      IndexAs(ret[1].index) <= IndexAs(i)
                /\ ret[1] = HwbpContext_breakpoint(width, ctx, ret[1].index)
    /\ last.op = "breakpoints" =>
          /\ Len(ret) = 4
          /\ \A k \in 1 .. 4 :
                /\ ret[k].index = IndexOrder[k]
                /\ ret[k] = HwbpContext_breakpoint(width, ctx, IndexOrder[k])

\* unused_breakpoint() has returned slot Third from a record in which the
\* first two slots are enabled, slot Fourth is unused as well and the
\* global-enable bit of slot Third is set.
C12_Witness ==
    /\ last.op = "unused_breakpoint"
    /\ Unused(ctx.Dr7) = {"Third", "Fourth"}
    /\ GlobalBit("Third") \in ctx.Dr7
    /\ ret # None
    /\ ret[1].index = "Third"
    /\ ~ret[1].enabled

\* from_bits returns None exactly for the arguments above 3.
FromBitsPartial ==
    \A b \in 0 .. 255 :
        /\ (Size_from_bits(b) = None) = (b > 3)
        /\ (Condition_from_bits(b) = None) = (b > 3)

\* C14: for every Dr7 value and every index, condition(index), size(index)
\* and breakpoint(index) return a valid variant and never reach the panic
\* of expect(); from_bits returns None only for arguments greater than 3.
C14_DecodeTotal ==
    /\ last.op = "dr7.condition" => ret \in Condition
    /\ last.op = "dr7.size" => ret \in Size
    /\ last.op = "breakpoint" =>
          /\ ret.condition \in Condition
          /\ ret.size \in Size
          /\ ret.index = last.index
    /\ FromBitsPartial

\* breakpoint(Fourth) has decoded size Eight (code 0b10) and condition
\* IoReadWrite (code 0b10) from a 64-bit register whose top bit is set.
C14_Witness ==
    /\ last.op = "breakpoint"
    /\ last.index = "Fourth"
    /\ width = 64
    /\ 63 \in ctx.Dr7
    /\ ret.size = "Eight"
    /\ ret.condition = "IoReadWrite"

\* C13: Size::as_bits maps One, Two, Four, Eight to 0b00, 0b01, 0b11, 0b10
\* and in_bytes to 1, 2, 4, 8; from_bits(as_bits(s)) = Some(s) for every s
\* and as_bits(from_bits(b)) = b for b in 0..3; the same two-way identity
\* holds for Condition with Execution = 0b00, Write = 0b01, ReadWrite =
\* 0b11, IoReadWrite = 0b10.
C13_SizeConditionCodes ==
    /\ last.op = "Size::as_bits" =>
          /\ ret = CASE last.size = "One" -> 0 [] last.size = "Two" -> 1
                      [] last.size = "Four" -> 3 [] last.size = "Eight" -> 2
          /\ Size_from_bits(ret) = Some(last.size)
    /\ last.op = "Size::in_bytes" =>
          ret = CASE last.size = "One" -> 1 [] last.size = "Two" -> 2
                  [] last.size = "Four" -> 4 [] last.size = "Eight" -> 8
    /\ (last.op = "Size::from_bits" /\ last.bits <= 3) =>
          /\ ret # None
          /\ Size_as_bits(ret[1]) = last.bits
    /\ last.op = "Condition::as_bits" =>
          /\ ret = CASE last.condition = "Execution" -> 0
                      [] last.condition = "Write" -> 1
                      [] last.condition = "ReadWrite" -> 3
                      [] last.condition = "IoReadWrite" -> 2
          /\ Condition_from_bits(ret) = Some(last.condition)
    /\ (last.op = "Condition::from_bits" /\ last.bits <= 3) =>
          /\ ret # None
          /\ Condition_as_bits(ret[1]) = last.bits

\* Size Eight has been encoded as 0b10, below the code of Four.
C13_Witness ==
    /\ last.op = "Size::as_bits"
    /\ last.size = "Eight"
    /\ ret = 2
    /\ ret < Size_as_bits("Four")

\* C15 as claimed: after clear_breakpoints() the descriptor read by
\* breakpoint(i) equals the default descriptor Hwbp::from_index(i) in all
\* five fields, for every index i.
C15_EmptyEqualsDefault ==
    last.op = "clear_breakpoints" =>
        \A i \in Index :
            HwbpContext_breakpoint(width, ctx, i) = Hwbp_from_index(i)

\* C15 as amended: after clear_breakpoints() the descriptor read by
\* breakpoint(i) equals Hwbp::from_index(i) in enabled, index, address and
\* size; its condition is Execution, that of the default is ReadWrite.
C15_EmptySlot ==
    last.op = "clear_breakpoints" =>
        \A i \in Index :
            LET got == HwbpContext_breakpoint(width, ctx, i)
                def == Hwbp_from_index(i)
            IN /\ got.enabled = def.enabled
               /\ got.index = def.index
               /\ got.address = def.address
               /\ got.size = def.size
               /\ got.condition = "Execution"
               /\ def.condition = "ReadWrite"

\* clear_breakpoints() has emptied a record whose four slots were enabled
\* with nonzero addresses, size Four and condition ReadWrite.
C15_Witness ==
    /\ last.op = "clear_breakpoints"
    /\ \A i \in Index :
          /\ SlotBits(i) \subseteq old.Dr7
          /\ old[DrField(i)] # 0
          /\ HwbpContext_breakpoint(width, old, i).condition = "ReadWrite"
          /\ ~HwbpContext_breakpoint(width, ctx, i).enabled
          /\ HwbpContext_breakpoint(width, ctx, i).address = 0

\* The live registers after a successful apply of the record c with the
\* strategy `with`: those of the strategy's thread are the record's, when
\* its ContextFlags select the debug registers.
Applied(lv, with, c) ==
    IF HasDebug(c.ContextFlags) /\ with.h \in Threads
    THEN [lv EXCEPT ![with.h] = Regs(c)] ELSE lv

\* C16: on a wrapper that owns a fetched snapshot, set_breakpoint,
\* clear_breakpoints, the Dr7 setters and Dr6 reset change only the held
\* snapshot: the threads' live debug registers change only in an apply()
\* / apply_with() that succeeds, and then to the held snapshot; apply
\* leaves the held snapshot unchanged.
C16_SnapshotIsolation ==
    [][/\ last'.op # "apply_with" => live' = live
       /\ last'.op = "apply_with" =>
             /\ ctx' = ctx
             /\ ret' = "FailedApplyContext" => live' = live
             /\ live' # live => live' = Applied(live, last'.with, ctx)
             /\ (ret' = "Ok" /\ last'.with.kind \in
                    {"SetThreadContext", "SetThreadContextOther"}) =>
                   live' = Applied(live, last'.with, ctx)]_vars

\* A snapshot fetched from the calling thread was rewritten while the
\* thread kept its registers, and a successful apply then made the
\* thread's registers those of the snapshot.
C16_Witness ==
    /\ last.op = "apply_with"
    /\ ret = "Ok"
    /\ steps >= 1
    /\ Regs(ctx) # Regs(start)
    /\ live[current_thread] = Regs(ctx)
    /\ live[current_thread].Dr7 # start.Dr7
    /\ ctx.ContextFlags = CONTEXT_DEBUG_REGISTERS

\* The address register and the Dr7 bits that a descriptor for slot
\* `index` writes, in registers r.
Written(r, index) ==
    <<r[DrField(index)], r.Dr7 \cap ({LocalBit(index)} \cup InfoBits(index))>>

\* The thread both callers of a race work on.
RaceTarget == calls[1].apply.h

\* C17: two callers each run fetch, set_breakpoint, apply against the same
\* thread, their statements interleaved in any order.  A fetch and a
\* set_breakpoint leave the thread as it was, and so does an apply whose
\* system call fails; an apply that succeeds makes the thread's debug
\* registers equal to the snapshot of the caller that ran it, so the thread
\* ends with the snapshot of the apply that ran last, and what the other
\* caller wrote is there only as far as that snapshot holds it.  A caller
\* gets an error only when its own system call failed, never because of
\* the other caller.
C17_LastApplyWins ==
    /\ last.op \in {"fetch", "set_breakpoint"} => live = old
    /\ (last.op = "apply" /\ ret # "Ok") => live = old
    /\ (last.op = "apply" /\ ret = "Ok") =>
          LET c == last.caller
              o == 3 - c
          IN /\ live[RaceTarget] = Regs(calls[c].context)
             /\ \A t \in Threads \ {RaceTarget} : live[t] = old[t]
             /\ Written(live[RaceTarget], calls[o].bp.index)
                  = Written(Regs(calls[c].context), calls[o].bp.index)
    /\ \A c \in DOMAIN calls :
          calls[c].pc = "done" =>
             /\ calls[c].res.tag = "Err" <=>
                   calls[c].log[Len(calls[c].log)].sys = 0
             /\ calls[c].res.tag = "Ok" => calls[c].res.value = "unit"

\* Both callers returned Ok; the caller that applied last had fetched
\* before the other applied, and the slot the other caller wrote, which its
\* own apply had installed, is back to what it was at the start.
C17_Witness ==
    /\ \A c \in DOMAIN calls :
          calls[c].pc = "done" /\ calls[c].res = Ok("unit")
    /\ last.op = "apply"
    /\ LET c == last.caller
           o == 3 - c
           i == calls[o].bp.index
       IN /\ calls[c].bp.index # i
          /\ Written(Regs(calls[o].context), i) # Written(start[RaceTarget], i)
          /\ Written(live[RaceTarget], i) = Written(start[RaceTarget], i)
          /\ Written(live[RaceTarget], calls[c].bp.index)
               = Written(Regs(calls[c].context), calls[c].bp.index)

\* The thread a fetch or apply strategy works on, when it is one of the
\* thread-context strategies.
ThreadKinds ==
    {"GetThreadContext", "GetThreadContextOther",
     "SetThreadContext", "SetThreadContextOther"}

\* The call fetches from and applies to one and the same thread, with the
\* thread-context strategies.
OnOneThread(call) ==
    /\ call.fetch.kind \in ThreadKinds
    /\ call.apply.kind \in ThreadKinds
    /\ call.fetch.h = call.apply.h

\* C18: when enable() or enable_with(fetch, apply), with thread-context
\* strategies on one thread and no other caller, returns Ok, the thread has
\* the descriptor's address in the slot's address register, its condition
\* and size in Dr7 and the slot's local-enable bit set; every other slot's
\* address and every other bit of Dr7 are as before the call, as are the
\* other threads; the returned descriptor is the input with enabled = true.
\* disable() and disable_with are the same with the bit cleared and
\* enabled = false.
C18_EnableInstalls ==
    \A c \in DOMAIN calls :
        LET call == calls[c]
            t == call.apply.h
            i == call.bp.index
            on == call.fn \in {"enable", "enable_with"}
        IN (/\ call.fn \in {"enable", "enable_with", "disable",
                            "disable_with"}
            /\ OnOneThread(call)
            /\ call.pc = "done"
            /\ call.res.tag = "Ok") =>
              /\ live[t][DrField(i)] = call.bp.address
              /\ Dr7_condition(live[t].Dr7, i) = call.bp.condition
              /\ Dr7_size(live[t].Dr7, i) = call.bp.size
              /\ Dr7_enabled_local(width, live[t].Dr7, i) = on
              /\ (LocalBit(i) \in live[t].Dr7) = on
              /\ \A j \in Index \ {i} :
                    live[t][DrField(j)] = start[t][DrField(j)]
              /\ Diff(start[t].Dr7, live[t].Dr7)
                    \subseteq ({LocalBit(i)} \cup InfoBits(i))
              /\ live[t].Dr6 = start[t].Dr6
              /\ \A u \in Threads \ {t} : live[u] = start[u]
              /\ call.res.value = [call.bp EXCEPT !.enabled = on]

\* enable_with through a handle to the other thread returned Ok for a
\* descriptor given as disabled: the slot was off and is now on with the
\* descriptor's address, and the slots that were on before still are.
C18_Witness ==
    /\ calls[1].fn = "enable_with"
    /\ calls[1].pc = "done"
    /\ calls[1].res.tag = "Ok"
    /\ OnOneThread(calls[1])
    /\ calls[1].apply.h = "other"
    /\ ~calls[1].bp.enabled
    /\ calls[1].res.value.enabled
    /\ LocalBit(calls[1].bp.index) \notin start["other"].Dr7
    /\ LocalBit(calls[1].bp.index) \in live["other"].Dr7
    /\ live["other"][DrField(calls[1].bp.index)] = MaxAddr
    /\ start["other"][DrField(calls[1].bp.index)] # MaxAddr
    /\ LocalBit("Third") \in live["other"].Dr7
    /\ live["other"].Dr0 = start["other"].Dr0

\* The entries of a call's log that invoke the fetch, or the apply, strategy.
Invocations(call, what) ==
    {k \in 1 .. Len(call.log) : call.log[k].what = what}

\* The query under a fetch reported failure: it returned 0.
QueryFailed(e) ==
    /\ e.what = "fetch"
    /\ e.with.kind \in {"GetThreadContext", "GetThreadContextOther"}
    /\ e.sys = 0

\* C19: in apply, apply_with, enable, enable_with, disable and disable_with
\* the fetch strategy is invoked exactly once, before the apply strategy
\* and with no retry.  If the fetch fails, the call returns
\* Err(FailedFetchContext), the apply strategy is never invoked and the
\* threads are as before the call.  If it succeeds, the apply strategy is
\* invoked exactly once, and its failure is returned as
\* Err(FailedApplyContext).
C19_FetchThenApply ==
    \A c \in DOMAIN calls :
        LET call == calls[c]
            log == call.log
        IN call.fn \in PlainFns \cup WithFns =>
             /\ call.pc = "start" => log = <<>>
             /\ call.pc # "start" =>
                   /\ Invocations(call, "fetch") = {1}
                   /\ log[1].with = call.fetch
                   /\ Invocations(call, "apply") \subseteq {2}
             /\ (call.pc # "start" /\ QueryFailed(log[1])) =>
                   /\ call.pc = "done"
                   /\ call.res = Err("FailedFetchContext")
                   /\ Len(log) = 1
                   /\ live = start
             /\ call.pc \in {"fetched", "set"} =>
                   /\ Len(log) = 1
                   /\ live = start
             /\ (call.pc \in {"done", "gone"} /\ ~QueryFailed(log[1])) =>
                   /\ Len(log) = 2
                   /\ log[2].what = "apply"
                   /\ log[2].with = call.apply
                   /\ log[2].res = "FailedApplyContext" =>
                         /\ call.res = Err("FailedApplyContext")
                         /\ live = start
                   /\ log[2].res = "Ok" => call.res.tag = "Ok"

\* enable_with through a valid handle: the query returned 0, the call is
\* over with Err(FailedFetchContext) after the one fetch and no apply.
C19_Witness ==
    /\ calls[1].fn = "enable_with"
    /\ calls[1].fetch = [kind |-> "GetThreadContextOther", h |-> "other"]
    /\ calls[1].apply.kind = "SetThreadContextOther"
    /\ calls[1].pc = "done"
    /\ calls[1].res = Err("FailedFetchContext")
    /\ Len(calls[1].log) = 1
    /\ QueryFailed(calls[1].log[1])
    /\ live = start

\* C20: GetThreadContext and GetThreadContextOther(h) return
\* Err(FailedFetchContext) exactly when the query under them returns 0, and
\* Ok otherwise; RtlCaptureContext returns Ok on every call.  get_with
\* hands out a wrapper only when the fetch returned Ok, and unused_with
\* returns the fetch's Err, never Ok(None), when the fetch fails; when it
\* succeeds it returns Ok of the first unused slot of the fetched record.
C20_FetchFailureMapping ==
    \A c \in DOMAIN calls :
        LET call == calls[c]
        IN /\ \A k \in Invocations(call, "fetch") :
                LET e == call.log[k]
                IN /\ e.with.kind = "RtlCaptureContext" => e.res = "Ok"
                   /\ e.with.kind # "RtlCaptureContext" =>
                         /\ e.sys = 0 <=> e.res = "FailedFetchContext"
                         /\ e.sys # 0 <=> e.res = "Ok"
                         /\ e.with.h \notin Threads => e.sys = 0
           /\ call.context # None =>
                /\ call.log[1].res = "Ok"
                /\ ~QueryFailed(call.log[1])
                /\ call.context.ContextFlags \in
                      {CONTEXT_DEBUG_REGISTERS, CaptureFlags}
           /\ (call.pc # "start" /\ call.log[1].res # "Ok") =>
                /\ call.context = None
                /\ call.res = Err("FailedFetchContext")
           /\ (call.fn \in UnusedFns /\ call.pc = "done") =>
                IF call.log[1].res = "Ok"
                THEN /\ call.res.tag = "Ok"
                     /\ call.fetch.kind # "RtlCaptureContext" =>
                           call.res.value =
                              HwbpContext_unused_breakpoint(width,
                                  WithRegs(ZeroedContext,
                                           live[call.fetch.h]))
                ELSE /\ QueryFailed(call.log[1])
                     /\ call.res.tag = "Err"
                     /\ call.res = Err("FailedFetchContext")

\* unused_with(GetThreadContext) on a thread whose four slots are all
\* enabled, and the query returned 0: the call returned the error.
C20_Witness ==
    /\ calls[1].fn = "unused_with"
    /\ calls[1].fetch.kind = "GetThreadContext"
    /\ calls[1].pc = "done"
    /\ calls[1].log[1].sys = 0
    /\ calls[1].res = Err("FailedFetchContext")
    /\ \A i \in Index : LocalBit(i) \in live[current_thread].Dr7
    /\ HwbpContext_unused_breakpoint(width,
           WithRegs(ZeroedContext, live[current_thread])) = None

\* C21: SetThreadContext and SetThreadContextOther(h) return
\* Err(FailedApplyContext) exactly when the set under them returns 0, and Ok
\* otherwise; NtContinue, when it returns, returns Err(FailedApplyContext)
\* exactly when the status is not a success status; RtlRestoreContext
\* returns Ok if it returns at all.  No apply returns FailedFetchContext and
\* no fetch returns FailedApplyContext.
C21_ApplyFailureMapping ==
    \A c \in DOMAIN calls :
        LET call == calls[c]
        IN /\ \A k \in Invocations(call, "apply") :
                LET e == call.log[k]
                IN /\ e.res \in {"Ok", "FailedApplyContext", "NoReturn"}
                   /\ e.with.kind \in {"SetThreadContext",
                                       "SetThreadContextOther"} =>
                         /\ e.res # "NoReturn"
                         /\ e.sys = 0 <=> e.res = "FailedApplyContext"
                         /\ e.sys # 0 <=> e.res = "Ok"
                         /\ e.with.h \notin Threads => e.sys = 0
                   /\ (e.with.kind = "NtContinue" /\ e.res # "NoReturn") =>
                         /\ e.sys # 0 <=> e.res = "FailedApplyContext"
                         /\ e.sys = 0 <=> e.res = "Ok"
                   /\ e.with.kind = "RtlRestoreContext" =>
                         e.res \in {"Ok", "NoReturn"}
                   /\ e.res = "FailedApplyContext" =>
                         /\ call.res = Err("FailedApplyContext")
                         /\ live = old
           /\ \A k \in Invocations(call, "fetch") :
                call.log[k].res \in {"Ok", "FailedFetchContext"}

\* enable_with applied through SetThreadContextOther with a handle that
\* names no thread, after a fetch that worked: the set returned 0 and the
\* call returned Err(FailedApplyContext).
C21_Witness ==
    /\ calls[1].fn = "enable_with"
    /\ calls[1].apply = [kind |-> "SetThreadContextOther", h |-> "invalid"]
    /\ calls[1].pc = "done"
    /\ Len(calls[1].log) = 2
    /\ calls[1].log[1].res = "Ok"
    /\ calls[1].log[2].sys = 0
    /\ calls[1].log[2].res = "FailedApplyContext"
    /\ calls[1].res = Err("FailedApplyContext")
    /\ live = start

\* C22: get_with hands the fetch strategy a record in which every field is
\* zero except ContextFlags, which is CONTEXT_DEBUG_REGISTERS; the flag is
\* written before the strategy is invoked (the strategy runs third, after
\* the zeroing and the write of the flag), and what get_with returns is the
\* record as the fetch left it, ContextFlags included.
C22_FetchPreparation ==
    /\ last.op \in {"init", "zeroed", "flags"} => start = None /\ ret = None
    /\ last.op = "flags" => ctx.ContextFlags = {4, 16}
    /\ last.op \in {"fetch", "return"} =>
          /\ start.Dr0 = 0 /\ start.Dr1 = 0 /\ start.Dr2 = 0 /\ start.Dr3 = 0
          /\ start.Dr6 = {} /\ start.Dr7 = {}
          /\ start.ContextFlags = {4, 16}
          /\ start.ContextFlags = CONTEXT_DEBUG_REGISTERS
    /\ last.op = "fetch" => steps = 3
    /\ last.op = "return" =>
          LET r == HwbpContext_get_with(live, status, last.os)
          IN /\ ret.tag = "Ok" <=> r.res = "Ok"
             /\ ret.tag = "Ok" =>
                   /\ ret.value = old
                   /\ ret.value = r.ctx
                   /\ ret.value.ContextFlags = old.ContextFlags
             /\ ret.tag = "Err" => ret.value = r.res

\* get_with(GetThreadContext) returned Ok: the strategy had received the
\* zeroed record with the flag, and the wrapper holds the thread's debug
\* registers, which are not all zero, under the same flag.
C22_Witness ==
    /\ last.op = "return"
    /\ status.kind = "GetThreadContext"
    /\ ret.tag = "Ok"
    /\ start.Dr7 = {} /\ start.ContextFlags = {4, 16}
    /\ ret.value.Dr7 # {}
    /\ ret.value.Dr1 # 0
    /\ Regs(ret.value) = live[current_thread]
    /\ ret.value.ContextFlags = {4, 16}

\* C23: into_context(from_context(c)) equals c in every field, for a record
\* passed by value and for a borrow; from_context sets and clears no bit of
\* ContextFlags, and no wrapper operation (set_breakpoint,
\* clear_breakpoints, the Dr6 resets, the Dr7 setters) changes
\* ContextFlags, so apply hands the strategy the flags the caller's record
\* came with: with the debug-register flag SetThreadContext installs the
\* wrapper's registers, without it the thread's debug registers stay.
C23_FromContextPreserves ==
    /\ [](/\ ctx.ContextFlags = start.ContextFlags
          /\ HwbpContext_into_context(HwbpContext_from_context(Owned(start)))
                = Owned(start)
          /\ HwbpContext_into_context(HwbpContext_from_context(Borrowed))
                = Borrowed
          /\ HwbpContext_borrow(HwbpContext_from_context(Owned(start)), ctx)
                = start
          /\ last.op = "init" => ctx = start)
    /\ [][/\ ctx'.ContextFlags = ctx.ContextFlags
          /\ last'.op = "apply_with" =>
                /\ ctx' = ctx
                /\ ~HasDebug(start.ContextFlags) => live' = live
                /\ (HasDebug(start.ContextFlags) /\ ret' = "Ok"
                      /\ last'.with.kind \in {"SetThreadContext",
                                              "SetThreadContextOther"}) =>
                       live' = Applied(live, last'.with, ctx)]_vars

\* A record with every part selected was wrapped, written once and applied
\* with SetThreadContext: the wrapper still carries the caller's flags and
\* the thread has the wrapper's debug registers.
C23_Witness ==
    /\ last.op = "apply_with"
    /\ last.with.kind = "SetThreadContext"
    /\ ret = "Ok"
    /\ steps >= 1
    /\ start.ContextFlags = FullFlags
    /\ ctx.ContextFlags = FullFlags
    /\ Regs(ctx) # Regs(start)
    /\ live[current_thread] = Regs(ctx)

\* The bits of Dr7 that belong to some slot.
AllSlotBits == UNION {SlotBits(i) : i \in Index}

\* The operations of the wrapper that write the record it holds.
WrapperWrites == {"set_breakpoint", "clear_breakpoints", "dr6_reset"}

\* C24: a wrapper made with from_context over a mutable borrow of the
\* trap's record writes through: each of its operations changes the record
\* itself, and after the test handler's clear_breakpoints() and
\* dr6_mut().reset() the record has DR0-DR3 = 0, every slot bit of Dr7
\* clear and Dr6 = 1<<16 (without the clear, Dr6 = 1<<16 and the rest as
\* delivered).  A wrapper made from a copy of the record leaves the record
\* as it is in every one of its operations; the record changes to the
\* wrapper's only when the caller writes into_context() back.
C24_BorrowedVersusOwned ==
    /\ [](calls[1].fn = "tests::handler" =>
            /\ calls[1].pc # "entry" => ~ctx.inner.own
            /\ (calls[1].pc = "returned"
                  /\ ret = "EXCEPTION_CONTINUE_EXECUTION") =>
                  /\ status.Dr6 = {16}
                  /\ status.ContextFlags = start.ContextFlags
                  /\ calls[1].CLEAR_BP_ON_HIT =>
                        /\ status.Dr0 = 0 /\ status.Dr1 = 0
                        /\ status.Dr2 = 0 /\ status.Dr3 = 0
                        /\ status.Dr7 \cap AllSlotBits = {}
                        /\ status.Dr7 \cap ReservedBits
                             = start.Dr7 \cap ReservedBits
                  /\ ~calls[1].CLEAR_BP_ON_HIT =>
                        status = [start EXCEPT !.Dr6 = {16}])
    /\ [][last'.op \in WrapperWrites =>
             IF ctx.inner.own
             THEN /\ status' = status
                  /\ ctx'.inner.own
                  /\ last'.op = "clear_breakpoints" =>
                        ctx'.inner.rec =
                           HwbpContext_clear_breakpoints(ctx.inner.rec)
                  /\ last'.op = "dr6_reset" =>
                        ctx'.inner.rec = [ctx.inner.rec EXCEPT !.Dr6 = {16}]
             ELSE /\ ctx' = ctx
                  /\ last'.op = "clear_breakpoints" =>
                        status' = HwbpContext_clear_breakpoints(status)
                  /\ last'.op = "dr6_reset" =>
                        status' = [status EXCEPT !.Dr6 = {16}]]_vars
    /\ [][last'.op = "into_context" =>
             /\ ctx.inner.own
             /\ status' = ctx.inner.rec]_vars

\* The test handler returned after clear_breakpoints() and the reset, on a
\* record that came with four enabled slots at nonzero addresses: the
\* record itself is cleared and its status reset.
C24_Witness ==
    /\ calls[1].fn = "tests::handler"
    /\ calls[1].pc = "returned"
    /\ calls[1].CLEAR_BP_ON_HIT
    /\ ret = "EXCEPTION_CONTINUE_EXECUTION"
    /\ \A i \in Index : start[DrField(i)] # 0 /\ LocalBit(i) \in start.Dr7
    /\ 0 \in start.Dr6
    /\ status.Dr0 = 0 /\ status.Dr3 = 0
    /\ status.Dr7 \cap AllSlotBits = {}
    /\ status.Dr6 = {16}
    /\ ~ctx.inner.own

\* C25: after the handler of the crate documentation has run (wrap a copy
\* of the record, reset_dr6 on the record, breakpoint_by_dr6 on the copy,
\* write the copy back) and returned EXCEPTION_CONTINUE_EXECUTION, the
\* record the system resumes from has Dr6 = 1<<16, no hit flag set.
C25_DocHandlerResetsDr6 ==
    (/\ calls[1].fn = "doc handler"
     /\ calls[1].pc = "returned"
     /\ ret = "EXCEPTION_CONTINUE_EXECUTION") =>
        /\ status.Dr6 = {16}
        /\ status.Dr6 \cap (0 .. 3) = {}

\* What the handler of the documentation does: the record resumed from is
\* the copy taken before the reset, so its Dr6 is the one the trap
\* delivered unless a modification of the copy reset it; the reset of the
\* record itself is overwritten.  The local dr6 is the delivered status.
C25_DocHandlerRestoresCopy ==
    (/\ calls[1].fn = "doc handler"
     /\ calls[1].pc = "returned"
     /\ ret = "EXCEPTION_CONTINUE_EXECUTION") =>
        /\ status = ctx.inner.rec
        /\ calls[1].dr6 = start.Dr6
        /\ steps = 0 => status = start

\* The handler of the documentation returned without a modification on a
\* trap of slot First: the record still carries the hit flag.
C25_StaleStatus ==
    /\ calls[1].fn = "doc handler"
    /\ calls[1].pc = "returned"
    /\ ret = "EXCEPTION_CONTINUE_EXECUTION"
    /\ steps = 0
    /\ start.Dr6 = {0}
    /\ old.Dr6 = {16}
    /\ status.Dr6 = {0}
    /\ calls[1].hwbp # None

\* The hit flags (bits 0-3) of a status value.
HitFlags(v) == v \cap (0 .. 3)

\* C26: as the doc comment of breakpoints_by_dr6_value and
\* breakpoints_by_dr6 has it, the function returns nothing when the Dr6
\* value does not have exactly one of the four hit flags set, and returns a
\* breakpoint only when exactly one flag is set.
C26_OnlyWhenExactlyOne ==
    /\ last.op = "breakpoints_by_dr6_value" =>
         /\ Cardinality(HitFlags(status)) # 1 => ret.items = <<>>
         /\ ret.items # <<>> => Cardinality(HitFlags(status)) = 1
    /\ last.op = "breakpoints_by_dr6" =>
         /\ Cardinality(HitFlags(ctx.Dr6)) # 1 => ret.items = <<>>
         /\ ret.items # <<>> => Cardinality(HitFlags(ctx.Dr6)) = 1

\* What the function does: it yields one descriptor for each hit flag that
\* is set, none when no flag is set.
C26_OnePerFlag ==
    /\ last.op = "breakpoints_by_dr6_value" =>
         Len(ret.items) = Cardinality(HitFlags(status))
    /\ last.op = "breakpoints_by_dr6" =>
         Len(ret.items) = Cardinality(HitFlags(ctx.Dr6))

\* Dr6 with the flags of slots First and Second: two descriptors returned.
C26_TwoReturned ==
    /\ last.op = "breakpoints_by_dr6_value"
    /\ HitFlags(status) = {0, 1}
    /\ Len(ret.items) = 2
    /\ ret.items[1].index = "First"
    /\ ret.items[2].index = "Second"

\* The descriptor of slot `index` put together from the readers of Dr7.
FromReaders(w, c, index) ==
    [enabled |-> Dr7_enabled_local(w, c.Dr7, index),
     index |-> index,
     address |-> c[DrField(index)],
     size |-> Dr7_size(c.Dr7, index),
     condition |-> Dr7_condition(c.Dr7, index)]

\* C27: for every starting record and every descriptor raw set_breakpoint
\* leaves the record that HwbpContext::set_breakpoint (Dr7::set_size,
\* set_condition, set_enabled_local) leaves, Dr7 and DR0-DR3 alike; raw
\* get_breakpoint returns the descriptor put together from
\* Dr7::enabled_local, Dr7::condition and Dr7::size; raw clear_breakpoints
\* leaves the record that HwbpContext::clear_breakpoints leaves.
C27_EncodersAgree ==
    /\ last.op = "raw::set_breakpoint" =>
         /\ ctx = HwbpContext_set_breakpoint(width, old, last.bp)
         /\ ctx.Dr7 = HwbpContext_set_breakpoint(width, old, last.bp).Dr7
    /\ last.op = "raw::clear_breakpoints" =>
         ctx = HwbpContext_clear_breakpoints(old)
    /\ last.op = "raw::get_breakpoint" =>
         /\ ret = FromReaders(width, ctx, last.index)
         /\ ctx = old
    /\ \A index \in Index :
         raw_get_breakpoint(width, ctx, index) = FromReaders(width, ctx, index)

\* A disabled Write breakpoint of size Two was written with the raw
\* encoder over a slot that was enabled with all four condition and size
\* bits set: both encoders clear the bits that the descriptor does not set.
C27_Witness ==
    /\ last.op = "raw::set_breakpoint"
    /\ last.bp.condition = "Write" /\ last.bp.size = "Two"
    /\ ~last.bp.enabled
    /\ ({LocalBit(last.bp.index)} \cup InfoBits(last.bp.index))
          \subseteq old.Dr7
    /\ ctx.Dr7 # old.Dr7
    /\ LocalBit(last.bp.index) \notin ctx.Dr7
    /\ ctx = HwbpContext_set_breakpoint(width, old, last.bp)
    /\ raw_get_breakpoint(width, ctx, last.bp.index) = last.bp

\* Bits 32-63 of a register.
HighBits == 32 .. 63

\* C28: Dr7::clear_breakpoint(i) zeroes the local-enable, global-enable,
\* condition and size bits of slot i and changes no other bit.  For a value
\* below 2^32, clear_breakpoint on all four slots, in any order, leaves the
\* value that clear_breakpoints() leaves.  For a 64-bit value with a bit of
\* 32-63 set the two differ: clear_breakpoints() keeps only bits 8-15 and
\* so zeroes bits 32-63, the per-slot clears leave them as they were.
C28_PerSlotVersusAll ==
    /\ last.op = "dr7_clear_breakpoint" =>
         /\ ctx.Dr7 \cap SlotBits(last.index) = {}
         /\ Diff(old.Dr7, ctx.Dr7) \subseteq SlotBits(last.index)
         /\ ctx.Dr7 = old.Dr7 \ SlotBits(last.index)
    /\ last.op = "dr7_clear_breakpoints" =>
         /\ ctx.Dr7 = start.Dr7 \cap ReservedBits
         /\ ctx.Dr7 \cap HighBits = {}
    /\ status = Index =>
         /\ ctx.Dr7 = start.Dr7 \ AllSlotBits
         /\ ctx.Dr7 \cap HighBits = start.Dr7 \cap HighBits
         /\ start.Dr7 \cap HighBits = {} =>
               ctx.Dr7 = Dr7_clear_breakpoints(start.Dr7)
         /\ start.Dr7 \cap HighBits # {} =>
               /\ ctx.Dr7 # Dr7_clear_breakpoints(start.Dr7)
               /\ Diff(ctx.Dr7, Dr7_clear_breakpoints(start.Dr7))
                     = start.Dr7 \cap HighBits

\* A 64-bit value with bit 63 and all of slot Fourth's bits set: after the
\* four per-slot clears, Fourth first and First last, bit 63 is still set,
\* which clear_breakpoints() would have zeroed.
C28_Witness ==
    /\ width = 64
    /\ status = Index
    /\ last.op = "dr7_clear_breakpoint" /\ last.index = "First"
    /\ SlotBits("Fourth") \subseteq start.Dr7
    /\ 63 \in start.Dr7
    /\ 63 \in ctx.Dr7
    /\ 63 \notin Dr7_clear_breakpoints(start.Dr7)
    /\ ctx.Dr7 \cap AllSlotBits = {}

\* The positions of a sequence of descriptors that write slot `index`.
WritesTo(seq, index) == {k \in 1 .. Len(seq) : seq[k].index = index}

\* The last descriptor of the sequence that writes slot `index`.
LastWrite(seq, index) ==
    seq[CHOOSE k \in WritesTo(seq, index) :
            \A j \in WritesTo(seq, index) : j <= k]

\* The record after writing to c, for each slot of `order` that the
\* sequence writes at all, the last descriptor written to it and nothing
\* else.
RECURSIVE LastOnly(_, _, _, _)
LastOnly(w, c, seq, order) ==
    IF order = <<>> THEN c
    ELSE LET rest == LastOnly(w, c, seq, Tail(order))
         IN IF WritesTo(seq, Head(order)) = {} THEN rest
            ELSE HwbpContext_set_breakpoint(w, rest,
                                            LastWrite(seq, Head(order)))

\* C29: for every context, set_breakpoint(d1) followed by set_breakpoint(d2)
\* on the same slot leaves what set_breakpoint(d2) alone leaves (nothing of
\* d1 remains; the same descriptor twice is as once); on different slots
\* the two calls commute; and after any sequence of set_breakpoint calls
\* the record is what the last descriptor of each slot alone gives, in
\* either order of the slots, and breakpoint(i) is the last descriptor
\* written to slot i.
C29_OverwriteAndCommute ==
    /\ \A i \in Index :
          WritesTo(calls, i) # {} =>
             HwbpContext_breakpoint(width, ctx, i) = LastWrite(calls, i)
    /\ (last.op = "breakpoint" /\ WritesTo(calls, last.index) # {}) =>
          ret = LastWrite(calls, last.index)
    /\ ctx = LastOnly(width, start, calls, IndexOrder)
    /\ ctx = LastOnly(width, start, calls,
                      <<"Fourth", "Third", "Second", "First">>)
    /\ Len(calls) = 2 =>
          /\ calls[1].index = calls[2].index =>
                ctx = HwbpContext_set_breakpoint(width, start, calls[2])
          /\ calls[1] = calls[2] =>
                ctx = HwbpContext_set_breakpoint(width, start, calls[1])
          /\ calls[1].index # calls[2].index =>
                ctx = HwbpContext_set_breakpoint(width,
                          HwbpContext_set_breakpoint(width, start, calls[2]),
                          calls[1])

\* An enabled ReadWrite breakpoint of size Eight was written to slot First
\* and then a disabled Execution breakpoint of size One at address 0 to the
\* same slot: nothing of the first is left in the record.
C29_Witness ==
    /\ Len(calls) = 2
    /\ last.op = "set_breakpoint"
    /\ calls[1].index = "First" /\ calls[2].index = "First"
    /\ calls[1].enabled /\ calls[1].size = "Eight"
    /\ calls[1].condition = "ReadWrite" /\ calls[1].address = MaxAddr
    /\ ~calls[2].enabled /\ calls[2].size = "One"
    /\ calls[2].condition = "Execution" /\ calls[2].address = 0
    /\ old # ctx
    /\ ctx.Dr0 = 0
    /\ ctx.Dr7 \cap ({LocalBit("First")} \cup InfoBits("First")) = {}
    /\ ctx = HwbpContext_set_breakpoint(width, start, calls[2])

\* C30: for every prior register value and every bool v, after set_trap(v)
\* the reader trap() returns v (bit 8), after set_resume(v) the reader
\* resume() returns v (bit 16), and each setter leaves every other bit of
\* the register unchanged.
C30_SettersSetFlag ==
    /\ last.op = "set_trap" =>
          /\ EFlags_trap(ctx.EFlags) = last.value
          /\ Diff(old.EFlags, ctx.EFlags) \subseteq {8}
    /\ last.op = "set_resume" =>
          /\ EFlags_resume(ctx.EFlags) = last.value
          /\ Diff(old.EFlags, ctx.EFlags) \subseteq {16}
    /\ (last.op = "trap" /\ last.after.op = "set_trap") =>
          ret = last.after.value
    /\ (last.op = "resume" /\ last.after.op = "set_resume") =>
          ret = last.after.value

\* What the setters do: the flag after the call is the flag before it or
\* the value given, no bit is ever cleared, and no other bit changes; so a
\* setter called with true sets its flag, and one called with false leaves
\* the register as it was.
C30_SettersOnlySet ==
    /\ last.op = "set_trap" =>
          /\ EFlags_trap(ctx.EFlags) = (EFlags_trap(old.EFlags) \/ last.value)
          /\ last.value => EFlags_trap(ctx.EFlags)
          /\ ~last.value => ctx = old
          /\ Diff(old.EFlags, ctx.EFlags) \subseteq {8}
    /\ last.op = "set_resume" =>
          /\ EFlags_resume(ctx.EFlags)
                = (EFlags_resume(old.EFlags) \/ last.value)
          /\ last.value => EFlags_resume(ctx.EFlags)
          /\ ~last.value => ctx = old
          /\ Diff(old.EFlags, ctx.EFlags) \subseteq {16}
    /\ start.EFlags \subseteq ctx.EFlags

\* trap() returned true right after set_trap(false) on a register whose
\* trap flag was set.
C30_TrapStaysSet ==
    /\ last.op = "trap"
    /\ last.after = [op |-> "set_trap", value |-> FALSE]
    /\ ret = TRUE
    /\ 8 \in old.EFlags

====
